---- MODULE Spec2Model ----
(***************************************************************************)
(* Reference-safety analysis of the set-based borrow checker:              *)
(*   - path algebra            (borrow-set/src/paths.rs)                   *)
(*   - reference table         (borrow-set/src/references.rs)              *)
(*   - borrow set              (borrow-set/src/set.rs)                     *)
(*   - abstract state          (reference_safety2/abstract_state.rs)       *)
(*   - fixed-point driver      (bytecode-verifier/src/absint.rs)           *)
(***************************************************************************)
EXTENDS Integers, Sequences, FiniteSets, TLC

VARIABLES
    borrow_set,   \* AbstractState.borrow_set of the state being executed
    stack,        \* operand stack of AbstractValues (top = last element)
    stack_types,  \* the signature token of each operand on the stack
    status,       \* "running" | "error" | "returned" | "panic"
    pc,           \* code offset of the next instruction of the sequence
    last,         \* the last instruction executed, its operands and outcome
    prog,         \* driver: the function body under analysis
    inv_map,      \* driver: InvariantMap, block id -> BlockInvariant
    next_block,   \* driver: Option<BlockId>
    visits,       \* driver: number of iterations of the while loop so far
    joins,        \* driver: the joins performed by the last iteration
    paths_in,     \* path algebra: the two paths handed to Path::compare
    orderings,    \* path algebra: <<compare(p, q), compare(q, p)>> once computed
    sets_in,      \* borrow sets: the sets handed to covers and join
    sets_out,     \* borrow sets: the results of covers and join once computed
    available,    \* locals safety: the locals that hold a value that was not moved
    env,          \* the environment variable SET_BASED: [set, val]
    analyzer,     \* "unselected" | "set_based" | "graph" | "panic"
    bset,         \* mutators: the BorrowSet<Loc, Lbl> of set.rs under its own mutators
    bset_new,     \* mutators: <<what BorrowSet::new returned>> once it was called
    bset_call,    \* mutators: the last call, its arguments, the set before it, its result
    pool,         \* symbol pool: the strings interned, in the order of their insertion
    syms,         \* symbol pool: the symbols issued, [s : the string, value : the u64]
    cfg_code,     \* control-flow graph: the code array handed to VMControlFlowGraph::new
    cfg_phase,    \* control-flow graph: "idle" | "new" | "loop" | "body" | "done"
    queue,        \* control-flow graph: the VecDeque of the depth loop
    cur,          \* control-flow graph: the block popped from the queue, or None
    ordered_blocks, \* control-flow graph: <<the traversal order>> once computed
    parse_in,     \* parser: [tokens, allow_trailing_delim] handed to parse_list
    parse_out,    \* parser: <<the result and the tokens left>> once computed
    build         \* the profile the verifier was built with: "release" | "debug"

vars == <<borrow_set, stack, stack_types, status, pc, last, prog, inv_map, next_block,
          visits, joins, paths_in, orderings, sets_in, sets_out, available, env, analyzer,
          bset, bset_new, bset_call, pool, syms, cfg_code, cfg_phase, queue, cur,
          ordered_blocks,
          parse_in, parse_out, build>>

algebra_vars == <<paths_in, orderings, sets_in, sets_out>>

selector_vars == <<env, analyzer>>

mutator_vars == <<bset, bset_new, bset_call>>

symbol_vars == <<pool, syms>>

cfg_vars == <<cfg_code, cfg_phase, queue, cur, ordered_blocks>>

parser_vars == <<parse_in, parse_out>>

\* the variables of the components that surround the analysis
utility_vars == <<symbol_vars, cfg_vars, parser_vars>>

(***************************************************************************)
(* The build.  cargo build and cargo test make a build with debug          *)
(* assertions, cargo build --release one without: the debug_checked_*      *)
(* annotations and debug_assert! are checked in the first and compiled out *)
(* of the second; assert!, checked_precondition! and checked_verify! are   *)
(* checked in both.  A run is a run of one build.                          *)
(***************************************************************************)
Builds == {"release", "debug"}

\* cfg!(debug_assertions)
debug_assertions == build = "debug"

\* a call that panics returns nothing: the message stands for its result
Panicked(msg) == [panic |-> msg]

\* the message of the panic that a result carries, "" when the call returned
panic_of(r) == IF "panic" \in DOMAIN r THEN r.panic ELSE ""

(***************************************************************************)
(* Bounds                                                                  *)
(***************************************************************************)
MaxCode == 5         \* length of the longest instruction sequence explored
MaxStack == 2        \* deepest operand stack explored
MaxCodeUnrooted == 6 \* as MaxCode, for a sequence that made a reference without paths

(***************************************************************************)
(* Offsets and labels (paths.rs Offset, abstract_state.rs Label).          *)
(* An offset is a triple <<kind, a, b>>.                                   *)
(***************************************************************************)
Parameter(i) == <<"Parameter", i, 0>>
Global(r) == <<"Global", r, 0>>
Local(i) == <<"Local", i, 0>>
Field(f) == <<"Field", f, 0>>
Existential(instr, n) == <<"Existential", instr, n>>
NoOffset == <<"None", 0, 0>>

IsExistential(o) == o[1] = "Existential"
IsLabeled(o) == o[1] \in {"Parameter", "Global", "Local", "Field"}

(***************************************************************************)
(* Path algebra                                                            *)
(***************************************************************************)
Path_initial(offset) == <<offset>>

\* Path::satisfies_invariant
satisfies_invariant(path) == path # <<>>

\* A path made by initial and extend is never empty.  On an empty path the
\* debug_checked_precondition! of extend, compare and first fails in a debug
\* build; in a release build extend goes on and self.0[0] is out of bounds.
InvariantFailed == "assertion failed: self.satisfies_invariant()"
OutOfBounds == "index out of bounds: the len is 0 but the index is 0"

Path_extend(path, extension) ==
    IF debug_assertions /\ ~satisfies_invariant(path) THEN Panicked(InvariantFailed)
    ELSE Append(path, extension)

Path_first(path) ==
    IF satisfies_invariant(path) THEN path[1]
    ELSE Panicked(IF debug_assertions THEN InvariantFailed ELSE OutOfBounds)

Incomparable == [ord |-> "Incomparable", ext |-> NoOffset]
LeftExtendsRight == [ord |-> "LeftExtendsRight", ext |-> NoOffset]
Equal == [ord |-> "Equal", ext |-> NoOffset]
RightExtendsLeft(r) == [ord |-> "RightExtendsLeft", ext |-> r]

\* variant: a longer left path is reported as Equal
compare_tail_one_way(lhs, rhs, li, ri) ==
    IF li <= Len(lhs) /\ ri > Len(rhs) THEN Equal
    ELSE IF li > Len(lhs) /\ ri > Len(rhs) THEN Equal
    ELSE RightExtendsLeft(rhs[ri])

\* The match after the loop.  li and ri are the positions the two iterators
\* will yield next (a position past the end yields None).
compare_tail(lhs, rhs, li, ri) ==
    IF li <= Len(lhs) /\ ri > Len(rhs) THEN LeftExtendsRight
    ELSE IF li > Len(lhs) /\ ri > Len(rhs) THEN Equal
    ELSE RightExtendsLeft(rhs[ri])

\* variant: any two wildcards are the same unknown
offset_eq_any_wildcard(l, r) == l = r \/ (IsExistential(l) /\ IsExistential(r))

\* the two "equal, continue" arms of the match in the loop
offset_eq(l, r) == l = r

\* variant: the label is reported whichever side holds it
mismatch_label_side(l, r) ==
    IF IsExistential(l) = IsExistential(r) THEN Incomparable
    ELSE RightExtendsLeft(IF IsExistential(r) THEN l ELSE r)

\* the arms of the match for two offsets that are not equal
mismatch(l, r) ==
    IF IsExistential(l) = IsExistential(r) THEN Incomparable
    ELSE RightExtendsLeft(r)

\* The `while let (Some(l), Some(r)) = (l_iter.next(), r_iter.next())` loop.
\* Both iterators are advanced before the pattern is tested, so the test
\* that ends the loop has already consumed position i of the longer path:
\* the match after the loop starts at i + 1 on both sides.
RECURSIVE compare_loop(_, _, _)
compare_loop(lhs, rhs, i) ==
    IF i > Len(lhs) \/ i > Len(rhs)
    THEN compare_tail(lhs, rhs, i + 1, i + 1)
    ELSE IF offset_eq(lhs[i], rhs[i]) THEN compare_loop(lhs, rhs, i + 1)
    ELSE mismatch(lhs[i], rhs[i])

\* The message of the panic that compare ends in, "" when it returns: the
\* two preconditions in a debug build, self first; &self.0[0] or &rhs.0[0]
\* in a release build.
compare_panic(lhs, rhs) ==
    IF satisfies_invariant(lhs) /\ satisfies_invariant(rhs) THEN ""
    ELSE IF ~debug_assertions THEN OutOfBounds
    ELSE IF satisfies_invariant(lhs) THEN "assertion failed: rhs.satisfies_invariant()"
    ELSE InvariantFailed

compare(lhs, rhs) ==
    IF ~satisfies_invariant(lhs) \/ ~satisfies_invariant(rhs)
    THEN [ord |-> "Panicked", ext |-> NoOffset, panic |-> compare_panic(lhs, rhs)]
    ELSE IF IsExistential(lhs[1]) # IsExistential(rhs[1]) THEN Incomparable
    ELSE compare_loop(lhs, rhs, 1)

(***************************************************************************)
(* Reference table.  Loc is the unit type, so a BorrowPath is its path.    *)
(***************************************************************************)
Ref_pinned(mutable, init_offset) ==
    [pinned |-> TRUE, mutable |-> mutable,
     paths |-> IF init_offset = NoOffset THEN {} ELSE {Path_initial(init_offset)}]

Ref_new(mutable, paths) == [pinned |-> FALSE, mutable |-> mutable, paths |-> paths]

Ref_copy_paths(ref) == {path : path \in ref.paths}

Ref_make_copy(ref, mutable) ==
    [pinned |-> FALSE, mutable |-> mutable, paths |-> Ref_copy_paths(ref)]

\* assert!(self.pinned): on a reference that is not pinned the call panics
\* and the reference stays as it was
Ref_release_paths(ref) ==
    IF ~ref.pinned
    THEN [pinned |-> ref.pinned, mutable |-> ref.mutable, paths |-> ref.paths,
          panic |-> "assertion failed: self.pinned"]
    ELSE [ref EXCEPT !.paths = {}]

\* debug_checked_verify!(self.pinned || !self.paths.is_empty()): the message
\* of the panic that Ref::paths ends in, "" when it returns
Ref_paths_panic(ref) ==
    IF debug_assertions /\ ~(ref.pinned \/ ref.paths # {})
    THEN "assertion failed: self.pinned || !self.paths.is_empty()"
    ELSE ""

Ref_paths(ref) ==
    LET Returned(msg) == IF msg # "" THEN Panicked(msg) ELSE ref.paths
    IN Returned(Ref_paths_panic(ref))

\* The path that an iteration over the BTreeSet of paths yields first.  A
\* Vec is ordered before every Vec it is a prefix of, so the empty path, a
\* Path made through its field and not by initial or extend, comes first
\* when the set holds it; of the other paths only that they are not empty
\* matters to the callers.
first_path(paths) == IF <<>> \in paths THEN <<>> ELSE CHOOSE path \in paths : TRUE

Ref_add_paths(ref, additional) == [ref EXCEPT !.paths = ref.paths \cup additional]

(***************************************************************************)
(* Borrow set: [map : RefID -> Ref, next_id : Nat]                         *)
(***************************************************************************)
Keys(bs) == DOMAIN bs.map

MapPut(m, k, v) == [x \in (DOMAIN m) \cup {k} |-> IF x = k THEN v ELSE m[x]]
MapRemove(m, k) == [x \in (DOMAIN m) \ {k} |-> m[x]]

\* returns the set with the reference added and the id issued for it.
\* assert!(old_value.is_none()) comes after the insert: when next_id is
\* already a key the call panics (panic is the message, "" otherwise), with
\* next_id incremented and the old entry overwritten
add_ref(bs, ref) ==
    [bs |-> [map |-> MapPut(bs.map, bs.next_id, ref), next_id |-> bs.next_id + 1],
     id |-> bs.next_id,
     panic |-> IF bs.next_id \in DOMAIN bs.map
               THEN "assertion failed: old_value.is_none()" ELSE ""]

is_mutable(bs, id) == bs.map[id].mutable

(***************************************************************************)
(* Mutators of set.rs (lines 164-275).  The BorrowSet of set.rs has two    *)
(* type parameters, Loc and Lbl.  Its paths are made by BorrowPath::new    *)
(* (loc, ref_start, offsets, ends_in_star): a path is rooted at a          *)
(* reference (ref_start is Some(id)) or at the first of its labels, and    *)
(* may end in a star.  A path is the record of these arguments, with the   *)
(* Option written as a sequence of at most one id; Loc is the unit type.   *)
(* Its references are counted: make_copy and release call                  *)
(* Ref::increment_count, count and decrement_count.  references.rs has     *)
(* none of BorrowPath::new, count, increment_count, decrement_count,       *)
(* freeze, into_paths and release_parent; they are read here as what       *)
(* their names and their uses in set.rs say: the count of a reference is   *)
(* the number of values that hold its id, one when Ref::new returns.       *)
(***************************************************************************)
BorrowPath_new(ref_start, offsets, ends_in_star) ==
    [ref_start |-> ref_start, offsets |-> offsets, ends_in_star |-> ends_in_star]

\* a reference as an entry of the map of set.rs: the Ref with its count
Ref_counted(ref, count) ==
    [pinned |-> ref.pinned, mutable |-> ref.mutable, paths |-> ref.paths, count |-> count]

\* Ref::release_parent(parent, parent_paths): a path that starts at the
\* released parent is replaced by the paths the parent had, which now end
\* in a star; the other paths stay
Ref_release_parent(ref, parent, parent_paths) ==
    LET rooted == {bp \in ref.paths : bp.ref_start = <<parent>>}
    IN IF rooted = {} THEN ref
       ELSE [ref EXCEPT !.paths = (ref.paths \ rooted) \cup parent_paths]

\* initial_refs: sequence of <<key, mutable, lbl>>.  Returns the set, the ids
\* issued for the keys and the message of the panic ("" when new returns).
RECURSIVE BorrowSet_new_from(_, _, _, _)
BorrowSet_new_from(initial_refs, i, bs, ids) ==
    IF i > Len(initial_refs)
    THEN [bs |-> bs, ids |-> ids,
          panic |-> IF debug_assertions /\ \E k \in 0 .. (bs.next_id - 1) : k \notin Keys(bs)
                    THEN "assertion failed: (0..s.next_id).all(|i| s.map.contains_key(&RefID(i)))"
                    ELSE ""]
    ELSE LET e == initial_refs[i]
             paths == {BorrowPath_new(<<>>, <<e[3]>>, FALSE)}
             r == add_ref(bs, Ref_counted(Ref_new(e[2], paths), 1))
         IN BorrowSet_new_from(initial_refs, i + 1, r.bs, MapPut(ids, e[1], r.id))

BorrowSet_new(initial_refs) ==
    BorrowSet_new_from(initial_refs, 1, [map |-> <<>>, next_id |-> 0], <<>>)

\* debug_assert!(ends_in_star ^ !offsets.is_empty()) comes first: in a debug
\* build the call panics there and the set stays as it was.  A source is not
\* looked up in the map: the new reference has one path for each source,
\* rooted at the id of the source, or the one path of the offsets alone.
extend(bs, sources, mutable, offsets, ends_in_star) ==
    LET paths == IF sources = {} THEN {BorrowPath_new(<<>>, offsets, ends_in_star)}
                 ELSE {BorrowPath_new(<<source>>, offsets, ends_in_star) : source \in sources}
    IN IF debug_assertions /\ (ends_in_star = (offsets # <<>>))
       THEN [bs |-> bs, id |-> bs.next_id,
             panic |-> "assertion failed: ends_in_star ^ !offsets.is_empty()"]
       ELSE add_ref(bs, Ref_counted(Ref_new(mutable, paths), 1))

Unwrapped == "called Option::unwrap() on a None value"

\* self.map.get_mut(&id).unwrap().increment_count(); id
make_copy(bs, id) ==
    IF id \notin Keys(bs) THEN [bs |-> bs, id |-> id, panic |-> Unwrapped]
    ELSE [bs |-> [bs EXCEPT !.map[id].count = @ + 1], id |-> id, panic |-> ""]

freeze(bs, id) ==
    IF id \notin Keys(bs) THEN [bs |-> bs, panic |-> Unwrapped]
    ELSE [bs |-> [bs EXCEPT !.map[id].mutable = FALSE], panic |-> ""]

extend_by_labels(bs, sources, mutable, offsets) ==
    extend(bs, sources, mutable, offsets, FALSE)

extend_by_unknown(bs, sources, mutable) == extend(bs, sources, mutable, <<>>, TRUE)

\* A reference that more than one value holds loses one holder and stays.
\* Otherwise its entry is removed, its paths are made to end in a star and
\* every other reference is told that its parent is gone.
release(bs, id) ==
    LET updated_paths == {[bp EXCEPT !.ends_in_star = TRUE] : bp \in bs.map[id].paths}
        others == Keys(bs) \ {id}
    IN IF id \notin Keys(bs) THEN [bs |-> bs, panic |-> Unwrapped]
       ELSE IF bs.map[id].count > 1
       THEN [bs |-> [bs EXCEPT !.map[id].count = @ - 1], panic |-> ""]
       ELSE [bs |-> [bs EXCEPT !.map =
                        [o \in others |-> Ref_release_parent(bs.map[o], id, updated_paths)]],
             panic |-> ""]

(***************************************************************************)
(* Mutators of the borrow set the abstract state instantiates.             *)
(* abstract_state.rs:24 names BorrowSet<(), CodeOffset, Label>, with three *)
(* type parameters, and calls new with Option<(Loc, Lbl)> entries,         *)
(* make_copy(loc, id, mutable), extend_by_label, extend_by_unknown with an *)
(* instruction and an index, move_into_pinned, is_pinned_released and a    *)
(* release of pinned references.  The text of that BorrowSet is commented  *)
(* out at set.rs:497-600: each of these methods hands the call to a        *)
(* BorrowMap of crate::map, and map.rs is not in the repository.  The      *)
(* BorrowMap operations below follow the description of the operations in  *)
(* the specification of the analyzer (4.3), over Ref::pinned, make_copy,   *)
(* copy_paths, release_paths and add_paths of references.rs and            *)
(* Path::initial and extend of paths.rs.                                   *)
(***************************************************************************)
\* initial_refs: sequence of <<key, mutable, init_offset>>
RECURSIVE BorrowMap_new_from(_, _, _, _)
BorrowMap_new_from(initial_refs, i, bs, ids) ==
    IF i > Len(initial_refs) THEN [bs |-> bs, ids |-> ids]
    ELSE LET e == initial_refs[i]
             r == add_ref(bs, Ref_pinned(e[2], e[3]))
         IN BorrowMap_new_from(initial_refs, i + 1, r.bs, MapPut(ids, e[1], r.id))

BorrowMap_new(initial_refs) ==
    BorrowMap_new_from(initial_refs, 1, [map |-> <<>>, next_id |-> 0], <<>>)

BorrowMap_make_copy(bs, id, mutable) == add_ref(bs, Ref_make_copy(bs.map[id], mutable))

\* every path of every source, extended by the offset
BorrowMap_extend(bs, sources, mutable, offset) ==
    LET from_sources == {Path_extend(p, offset) : p \in UNION {bs.map[s].paths : s \in sources}}
        paths == IF sources = {} THEN {Path_initial(offset)} ELSE from_sources
    IN add_ref(bs, Ref_new(mutable, paths))

BorrowMap_extend_by_label(bs, sources, mutable, lbl) ==
    BorrowMap_extend(bs, sources, mutable, lbl)

BorrowMap_extend_by_unknown(bs, sources, mutable, instr, n) ==
    BorrowMap_extend(bs, sources, mutable, Existential(instr, n))

BorrowMap_is_pinned_released(bs, id) == bs.map[id].paths = {}

BorrowMap_release(bs, id) ==
    IF bs.map[id].pinned
    THEN [bs EXCEPT !.map[id] = Ref_release_paths(bs.map[id])]
    ELSE [bs EXCEPT !.map = MapRemove(bs.map, id)]

\* the three steps in their order: the paths bound in pinned are released,
\* the paths other then has are copied into pinned, other is released.
\* When pinned and other are one reference, the second step copies the
\* paths that the first step left, which are none.
BorrowMap_move_into_pinned(bs, pinned, other) ==
    LET released == [bs EXCEPT !.map[pinned] = Ref_release_paths(bs.map[pinned])]
        moved == [released EXCEPT !.map[pinned] =
                     Ref_add_paths(released.map[pinned], Ref_copy_paths(released.map[other]))]
    IN BorrowMap_release(moved, other)

(***************************************************************************)
(* Query API.  A QueryFilter is [has_mask, mask, has_mutable, mutable].    *)
(* Conflicts / Parents are [equal, existential : sets of ids,              *)
(* labeled : set of <<label, id>>] (the location values are all unit).     *)
(***************************************************************************)
QueryFilter_empty ==
    [has_mask |-> FALSE, mask |-> {}, has_mutable |-> FALSE, mutable |-> FALSE]

QueryFilter_is_mutable(filter, mutable) ==
    [filter EXCEPT !.has_mutable = TRUE, !.mutable = mutable]

QueryFilter_candidates(filter, candidates) ==
    [filter EXCEPT !.has_mask = TRUE, !.mask = candidates]

filtered_iter(bs, filter) ==
    {id \in Keys(bs) :
        /\ (filter.has_mutable => bs.map[id].mutable = filter.mutable)
        /\ (filter.has_mask => id \in filter.mask)}

\* The panic that the pass of the first path of id ends in at the reference
\* other_id, "" when the pass goes on: Ref::paths of other_id, then the
\* first call of compare, on the first path of id and the first path of
\* other_id (borrows_from compares them the other way round).  compare
\* panics on an empty path; when neither first path is empty no path of the
\* two references is, and no later call panics.
query_panic_at(bs, id, other_id, parents) ==
    IF Ref_paths_panic(bs.map[other_id]) # "" THEN Ref_paths_panic(bs.map[other_id])
    ELSE IF bs.map[other_id].paths = {} THEN ""
    ELSE IF parents
    THEN compare_panic(first_path(bs.map[other_id].paths), first_path(bs.map[id].paths))
    ELSE compare_panic(first_path(bs.map[id].paths), first_path(bs.map[other_id].paths))

\* The panic that the loops of borrowed_by (parents = FALSE) and of
\* borrows_from (parents = TRUE) end in, "" when they run to their end:
\* self.map[&id] of an id that is no key, then Ref::paths of id and, once id
\* has a path to compare, the first of the references the filter lets
\* through at which Ref::paths or compare panics.
query_loop_panic(bs, id, filter, parents) ==
    LET First(failing) ==
            IF failing = {} THEN ""
            ELSE query_panic_at(bs, id, CHOOSE o \in failing : \A x \in failing : o <= x,
                                parents)
    IN IF id \notin Keys(bs) THEN "no entry found for key"
       ELSE IF Ref_paths_panic(bs.map[id]) # "" THEN Ref_paths_panic(bs.map[id])
       ELSE IF bs.map[id].paths = {} THEN ""
       ELSE First({other_id \in filtered_iter(bs, filter) \ {id} :
                      query_panic_at(bs, id, other_id, parents) # ""})

\* the panic of borrowed_by
query_panic(bs, id, filter) == query_loop_panic(bs, id, filter, FALSE)

\* every (path of id, other id, path of other) the nested loops visit: the
\* loop over the others is inside the loop over the paths of id
query_pairs(bs, id, filter) ==
    UNION {UNION {{<<path, other_id, other_path>> :
                      other_path \in Ref_paths(bs.map[other_id])} :
                  other_id \in filtered_iter(bs, filter) \ {id}} :
           path \in Ref_paths(bs.map[id])}

\* the Conflicts / Parents of a query that panicked: nothing is returned
NoneReturned(msg) == [equal |-> {}, existential |-> {}, labeled |-> {}, panic |-> msg]

classify(cmp) ==
    [equal |-> {c[1] : c \in {d \in cmp : d[2].ord = "Equal"}},
     existential |-> {c[1] : c \in {d \in cmp :
                         d[2].ord = "RightExtendsLeft" /\ IsExistential(d[2].ext)}},
     labeled |-> {<<c[2].ext, c[1]>> : c \in {d \in cmp :
                         d[2].ord = "RightExtendsLeft" /\ ~IsExistential(d[2].ext)}}]

borrowed_by(bs, id, filter) ==
    LET Returned(msg) ==
            IF msg # "" THEN NoneReturned(msg)
            ELSE classify({<<t[2], compare(t[1], t[3])>> : t \in query_pairs(bs, id, filter)})
    IN Returned(query_panic(bs, id, filter))

\* variant: the paths are compared in the order borrowed_by compares them
borrows_from_same_order(bs, id, filter) ==
    LET Returned(msg) ==
            IF msg # "" THEN NoneReturned(msg)
            ELSE classify({<<t[2], compare(t[1], t[3])>> : t \in query_pairs(bs, id, filter)})
    IN Returned(query_panic(bs, id, filter))

borrows_from(bs, id, filter) ==
    LET Returned(msg) ==
            IF msg # "" THEN NoneReturned(msg)
            ELSE classify({<<t[2], compare(t[3], t[1])>> : t \in query_pairs(bs, id, filter)})
    IN Returned(query_loop_panic(bs, id, filter, TRUE))

Conflicts_is_empty(c) == c.equal = {} /\ c.existential = {} /\ c.labeled = {}

labeled_contains_key(labeled, lbl) == \E e \in labeled : e[1] = lbl

\* The panic that the loop of all_starting_with_predicate ends in at the
\* reference id, "" when it goes on: Ref::paths of id, then Path::first of
\* its first path, which panics on an empty path.
starting_with_panic_at(bs, id) ==
    IF Ref_paths_panic(bs.map[id]) # "" THEN Ref_paths_panic(bs.map[id])
    ELSE IF <<>> \in bs.map[id].paths THEN panic_of(Path_first(<<>>))
    ELSE ""

\* The loop of all_starting_with_predicate reads the paths of every
\* reference of the map: the panic it ends in, "" when it runs to its end.
all_starting_with_panic(bs) ==
    LET First(failing) ==
            IF failing = {} THEN ""
            ELSE starting_with_panic_at(bs, CHOOSE id \in failing : \A x \in failing : id <= x)
    IN First({id \in Keys(bs) : starting_with_panic_at(bs, id) # ""})

\* the predicate p is given as the set of first offsets it accepts
all_starting_with_predicate(bs, p) ==
    LET Returned(msg) ==
            IF msg # "" THEN Panicked(msg)
            ELSE {id \in Keys(bs) :
                     \E path \in Ref_paths(bs.map[id]) : Path_first(path) \in p}
    IN Returned(all_starting_with_panic(bs))

all_starting_with_label(bs, lbl) == all_starting_with_predicate(bs, {lbl})

first_offsets(bs) == {Path_first(path) : path \in UNION {bs.map[id].paths : id \in Keys(bs)}}

(***************************************************************************)
(* Joining                                                                 *)
(***************************************************************************)
\* variant: only a strict extension of a path of self is covered
path_is_covered_strictly(self_paths, other_path) ==
    \E self_path \in self_paths : compare(self_path, other_path).ord = "RightExtendsLeft"

\* self_paths.iter().any(..): the first call of compare is on the first path
\* of self_paths, and it panics when that path or other_path is empty
path_is_covered(self_paths, other_path) ==
    IF self_paths # {} /\ compare_panic(first_path(self_paths), other_path) # ""
    THEN Panicked(compare_panic(first_path(self_paths), other_path))
    ELSE \E self_path \in self_paths :
             compare(self_path, other_path).ord \in {"Equal", "RightExtendsLeft"}

\* Ref::count of an entry of the map.  The references of the abstract state
\* are the Ref of references.rs, which has no count: they count alike.
Ref_count(ref) == IF "count" \in DOMAIN ref THEN ref.count ELSE 1

\* the two checks of the loop of consistent_world on the reference id: the
\* message of the one that fails, "" when both pass
consistent_ref(self, other, id) ==
    IF self.map[id].mutable # other.map[id].mutable
    THEN "assertion failed: self.map[id].is_mutable() == other.map[id].is_mutable()"
    ELSE IF Ref_count(self.map[id]) # Ref_count(other.map[id])
    THEN "assertion failed: self.map[id].count() == other.map[id].count()"
    ELSE ""

\* The checks of consistent_world, made in a debug build in the order of the
\* code: the message of the first that fails, "" when the call returns.
consistent_world(self, other) ==
    LET First(failing) ==
            IF failing = {} THEN ""
            ELSE consistent_ref(self, other, CHOOSE id \in failing : \A x \in failing : id <= x)
    IN IF ~debug_assertions THEN ""
       ELSE IF ~(Keys(self) \subseteq Keys(other))
       THEN "assertion failed: self.map.keys().all(|id| other.map.contains_key(id))"
       ELSE IF ~(Keys(other) \subseteq Keys(self))
       THEN "assertion failed: other.map.keys().all(|id| self.map.contains_key(id))"
       ELSE IF self.next_id # other.next_id
       THEN "assertion failed: self.next_id == other.next_id"
       ELSE First({id \in Keys(self) : consistent_ref(self, other, id) # ""})

\* The keys of other at which the loop of covers and of join stops with a
\* panic: self.map[id] of a key that self has not, Ref::paths of one of the
\* two references, or the first call of compare, on the first path of self
\* and the first path of other, when one of them is empty.
loop_panic_at(self, other, id) ==
    IF id \notin Keys(self) THEN "no entry found for key"
    ELSE IF Ref_paths_panic(self.map[id]) # "" THEN Ref_paths_panic(self.map[id])
    ELSE IF Ref_paths_panic(other.map[id]) # "" THEN Ref_paths_panic(other.map[id])
    ELSE IF self.map[id].paths = {} \/ other.map[id].paths = {} THEN ""
    ELSE compare_panic(first_path(self.map[id].paths), first_path(other.map[id].paths))

\* The loop of covers runs over the keys of other in their order and returns
\* false at the first path that is not covered: the first key at which it
\* stops, with a panic or with false; -1 when it runs to its end.
covers_stops_at(self, other) ==
    LET First(stops) ==
            IF stops = {} THEN -1 ELSE CHOOSE id \in stops : \A x \in stops : id <= x
    IN First({id \in Keys(other) :
                 \/ loop_panic_at(self, other, id) # ""
                 \/ \E other_path \in other.map[id].paths :
                        ~path_is_covered(self.map[id].paths, other_path)})

\* the message of the panic that covers ends in, "" when it returns
covers_panic(self, other) ==
    LET Stopped(at) == IF at = -1 THEN "" ELSE loop_panic_at(self, other, at)
        Checked(msg) == IF msg # "" THEN msg ELSE Stopped(covers_stops_at(self, other))
    IN Checked(consistent_world(self, other))

covers(self, other) ==
    LET Returned(msg) ==
            IF msg # "" THEN Panicked(msg) ELSE covers_stops_at(self, other) = -1
    IN Returned(covers_panic(self, other))

\* debug_checked_precondition!(self.map.keys().all(|id| id.0 < n)): in a debug
\* build a key that is not below the number of keys makes the call panic,
\* with next_id as it was
set_next_id_after_join(bs) ==
    IF debug_assertions /\ \E id \in Keys(bs) : ~(id < Cardinality(Keys(bs)))
    THEN [map |-> bs.map, next_id |-> bs.next_id,
          panic |-> "assertion failed: self.map.keys().all(|id| id.0 < n)"]
    ELSE [bs EXCEPT !.next_id = Cardinality(Keys(bs))]

\* variant: every path of other is added
BorrowSet_join_union(self, other) ==
    LET joined == [self EXCEPT !.map =
            [id \in Keys(self) |->
                IF id \in Keys(other)
                THEN Ref_add_paths(self.map[id], other.map[id].paths)
                ELSE self.map[id]]]
    IN set_next_id_after_join(joined)

\* variant: no path of other is added
BorrowSet_join_left(self, other) == set_next_id_after_join(self)

\* the message of the panic that the loop of join ends in: the loop has no
\* early return, so it stops at the first key of other that makes it panic
join_loop_panic(self, other) ==
    LET First(stops) ==
            IF stops = {} THEN ""
            ELSE loop_panic_at(self, other, CHOOSE id \in stops : \A x \in stops : id <= x)
    IN First({id \in Keys(other) : loop_panic_at(self, other, id) # ""})

\* A call that panics returns nothing: the result is then self as it was,
\* with the message of the panic.  consistent_world is called on self and
\* other, and on self and the clone with the paths added, before
\* set_next_id_after_join.
BorrowSet_join(self, other) ==
    LET Left(msg) == [map |-> self.map, next_id |-> self.next_id, panic |-> msg]
        Renumbered(r) == IF panic_of(r) # "" THEN Left(panic_of(r)) ELSE r
        Rechecked(msg, joined) ==
            IF msg # "" THEN Left(msg) ELSE Renumbered(set_next_id_after_join(joined))
        Added(joined) == Rechecked(consistent_world(self, joined), joined)
        Looped(msg) ==
            IF msg # "" THEN Left(msg)
            ELSE Added([self EXCEPT !.map =
                     [id \in Keys(self) |->
                         IF id \in Keys(other)
                         THEN Ref_add_paths(self.map[id],
                                 {q \in other.map[id].paths :
                                     ~path_is_covered(self.map[id].paths, q)})
                         ELSE self.map[id]]])
        Checked(msg) == IF msg # "" THEN Left(msg) ELSE Looped(join_loop_panic(self, other))
    IN Checked(consistent_world(self, other))


(***************************************************************************)
(* Abstract state.  The function analysed has one parameter and three      *)
(* locals; AbstractState.locals is fixed by AbstractState::new, so the     *)
(* state that changes is the borrow set alone.                             *)
(***************************************************************************)
ParameterTypes == <<"MutableReference">>
LocalTypes == <<"MutableReference", "Reference", "U64">>
NumParams == Len(ParameterTypes)

IsRefType(ty) == ty \in {"MutableReference", "Reference"}

\* the filter_map over an enumerated signature
RECURSIVE ref_entries(_, _, _, _)
ref_entries(types, i, base, is_param) ==
    IF i > Len(types) THEN <<>>
    ELSE LET idx == base + i - 1
             rest == ref_entries(types, i + 1, base, is_param)
         IN IF IsRefType(types[i])
            THEN <<<<idx, types[i] = "MutableReference",
                     IF is_param THEN Parameter(idx) ELSE NoOffset>>>> \o rest
            ELSE rest

\* AbstractState::new of a function with the given parameter and local types
AbstractState_new_of(parameters, local_types) ==
    BorrowMap_new(ref_entries(parameters, 1, 0, TRUE)
                  \o ref_entries(local_types, 1, Len(parameters), FALSE))

AbstractState_new == AbstractState_new_of(ParameterTypes, LocalTypes)

locals == AbstractState_new.ids
InitialBorrowSet == AbstractState_new.bs

LocalIndexes == 0 .. (NumParams + Len(LocalTypes) - 1)
LocalType(i) == IF i < NumParams THEN ParameterTypes[i + 1] ELSE LocalTypes[i - NumParams + 1]
PinnedIds == {locals[i] : i \in DOMAIN locals}

Reference(id) == <<"Reference", id>>
NonReference == <<"NonReference", 0>>
is_reference(v) == v[1] = "Reference"
ref_ids(values) == {values[i][2] : i \in {j \in DOMAIN values : is_reference(values[j])}}

Ok(bs, vals) == [err |-> "", bs |-> bs, vals |-> vals]
Err(code, bs) == [err |-> code, bs |-> bs, vals |-> <<>>]

\* Core predicates
\* checked_precondition!(is_mutable(id)) is an assert in every build: on an
\* immutable reference the call panics and returns nothing
is_writable_panic(bs, id) ==
    IF ~is_mutable(bs, id) THEN "assertion failed: self.borrow_set.is_mutable(id)"
    ELSE query_panic(bs, id, QueryFilter_empty)

is_writable(bs, id) ==
    LET Queried(c) ==
            ~(\E e \in c.equal : ~is_mutable(bs, e))
                /\ ~(c.existential # {} \/ c.labeled # {})
        Returned(msg) ==
            IF msg # "" THEN Panicked(msg)
            ELSE Queried(borrowed_by(bs, id, QueryFilter_empty))
    IN Returned(is_writable_panic(bs, id))

NoField == -1

is_readable_panic(bs, id) ==
    IF ~is_mutable(bs, id) THEN ""
    ELSE query_panic(bs, id, QueryFilter_is_mutable(QueryFilter_empty, TRUE))

is_readable(bs, id, at_field_opt) ==
    LET Queried(c) ==
            LET has_mut_extensions_at_unknown == c.existential # {}
                has_mut_extensions_at_field ==
                    IF at_field_opt = NoField THEN c.labeled # {}
                    ELSE labeled_contains_key(c.labeled, Field(at_field_opt))
            IN ~has_mut_extensions_at_unknown /\ ~has_mut_extensions_at_field
        Returned(msg) ==
            IF msg # "" THEN Panicked(msg)
            ELSE Queried(borrowed_by(bs, id, QueryFilter_is_mutable(QueryFilter_empty, TRUE)))
    IN IF ~is_mutable(bs, id) THEN TRUE
       ELSE Returned(is_readable_panic(bs, id))

\* The predicates below call all_starting_with_label or
\* all_starting_with_predicate first: they panic when it does.

is_local_borrowed(bs, idx) ==
    LET Returned(msg) ==
            IF msg # "" THEN Panicked(msg)
            ELSE all_starting_with_label(bs, Local(idx)) # {}
    IN Returned(all_starting_with_panic(bs))

is_local_mutably_borrowed(bs, idx) ==
    LET Returned(msg) ==
            IF msg # "" THEN Panicked(msg)
            ELSE \E id \in all_starting_with_label(bs, Local(idx)) : is_mutable(bs, id)
    IN Returned(all_starting_with_panic(bs))

is_global_borrowed(bs, resource) ==
    LET Returned(msg) ==
            IF msg # "" THEN Panicked(msg)
            ELSE all_starting_with_label(bs, Global(resource)) # {}
    IN Returned(all_starting_with_panic(bs))

is_frame_safe_to_destroy(bs) ==
    LET p == {lbl \in first_offsets(bs) : lbl[1] \in {"Global", "Field"}}
        Returned(msg) ==
            IF msg # "" THEN Panicked(msg) ELSE all_starting_with_predicate(bs, p) = {}
    IN Returned(all_starting_with_panic(bs))

(***************************************************************************)
(* Instruction entry points.  Each returns [err, bs, vals]: the status     *)
(* code ("" on success), the borrow set as the call leaves it, and the     *)
(* values it produces.                                                     *)
(***************************************************************************)
release_value(bs, value) == IF is_reference(value) THEN BorrowMap_release(bs, value[2]) ELSE bs

copy_loc(bs, local) ==
    IF local \in DOMAIN locals
    THEN LET id == locals[local]
             r == BorrowMap_make_copy(bs, id, is_mutable(bs, id))
         IN IF r.panic # "" THEN Panicked(r.panic)
            ELSE Ok(r.bs, <<Reference(r.id)>>)
    ELSE LET Checked(msg) ==
                 IF msg # "" THEN Panicked(msg)
                 ELSE IF is_local_mutably_borrowed(bs, local) THEN Err("COPYLOC_EXISTS_BORROW_ERROR", bs)
                 ELSE Ok(bs, <<NonReference>>)
         IN Checked(all_starting_with_panic(bs))

move_loc(bs, local) ==
    IF local \in DOMAIN locals THEN Ok(bs, <<Reference(locals[local])>>)
    ELSE LET Checked(msg) ==
                 IF msg # "" THEN Panicked(msg)
                 ELSE IF is_local_borrowed(bs, local) THEN Err("MOVELOC_EXISTS_BORROW_ERROR", bs)
                 ELSE Ok(bs, <<NonReference>>)
         IN Checked(all_starting_with_panic(bs))

st_loc(bs, local, new_value) ==
    IF (local \in DOMAIN locals) # is_reference(new_value) THEN Ok(bs, <<>>)
    ELSE IF ~is_reference(new_value)
    THEN LET Checked(msg) ==
                 IF msg # "" THEN Panicked(msg)
                 ELSE IF is_local_borrowed(bs, local) THEN Err("STLOC_UNSAFE_TO_DESTROY_ERROR", bs)
                 ELSE Ok(bs, <<>>)
         IN Checked(all_starting_with_panic(bs))
    ELSE Ok(BorrowMap_move_into_pinned(bs, locals[local], new_value[2]), <<>>)

freeze_ref(bs, id) ==
    LET r == BorrowMap_make_copy(bs, id, FALSE)
    IN IF r.panic # "" THEN Panicked(r.panic)
       ELSE Ok(BorrowMap_release(r.bs, id), <<Reference(r.id)>>)

read_ref(bs, id) ==
    LET Checked(msg) ==
            IF msg # "" THEN Panicked(msg)
            ELSE IF ~is_readable(bs, id, NoField)
            THEN Err("READREF_EXISTS_MUTABLE_BORROW_ERROR", bs)
            ELSE Ok(BorrowMap_release(bs, id), <<NonReference>>)
    IN Checked(is_readable_panic(bs, id))

\* The guard of the first arm is !is_readable(id1) || !is_readable(id2): the
\* second call is made only when the first returns true.  checked_verify! is
\* an assert in every build: a reference compared with a value makes the
\* call panic.
comparison(bs, v1, v2) ==
    LET Second(msg) ==
            IF msg # "" THEN Panicked(msg)
            ELSE IF ~is_readable(bs, v2[2], NoField)
            THEN Err("READREF_EXISTS_MUTABLE_BORROW_ERROR", bs)
            ELSE Ok(BorrowMap_release(BorrowMap_release(bs, v1[2]), v2[2]), <<NonReference>>)
        First(msg) ==
            IF msg # "" THEN Panicked(msg)
            ELSE IF ~is_readable(bs, v1[2], NoField)
            THEN Err("READREF_EXISTS_MUTABLE_BORROW_ERROR", bs)
            ELSE Second(is_readable_panic(bs, v2[2]))
    IN IF is_reference(v1) /\ is_reference(v2) THEN First(is_readable_panic(bs, v1[2]))
       ELSE IF is_reference(v1) THEN Panicked("assertion failed: v1.is_value()")
       ELSE IF is_reference(v2) THEN Panicked("assertion failed: v2.is_value()")
       ELSE Ok(bs, <<NonReference>>)

\* variant: the reference is released before the check
write_ref_releasing_first(bs, id) ==
    LET Checked(msg) ==
            IF msg # "" THEN Panicked(msg)
            ELSE IF ~is_writable(bs, id)
            THEN Err("WRITEREF_EXISTS_BORROW_ERROR", BorrowMap_release(bs, id))
            ELSE Ok(BorrowMap_release(bs, id), <<>>)
    IN Checked(is_writable_panic(bs, id))

\* is_writable panics before anything is released
write_ref(bs, id) ==
    LET Checked(msg) ==
            IF msg # "" THEN Panicked(msg)
            ELSE IF ~is_writable(bs, id) THEN Err("WRITEREF_EXISTS_BORROW_ERROR", bs)
            ELSE Ok(BorrowMap_release(bs, id), <<>>)
    IN Checked(is_writable_panic(bs, id))

borrow_loc(bs, mut_, local) ==
    LET r == BorrowMap_extend_by_label(bs, {}, mut_, Local(local))
    IN IF r.panic # "" THEN Panicked(r.panic)
       ELSE Ok(r.bs, <<Reference(r.id)>>)

borrow_field(bs, mut_, id, field) ==
    LET r == BorrowMap_extend_by_label(bs, {id}, mut_, Field(field))
    IN IF r.panic # "" THEN Panicked(r.panic)
       ELSE Ok(BorrowMap_release(r.bs, id), <<Reference(r.id)>>)

borrow_global(bs, mut_, resource) ==
    LET r == BorrowMap_extend_by_label(bs, {}, mut_, Global(resource))
    IN IF r.panic # "" THEN Panicked(r.panic)
       ELSE Ok(r.bs, <<Reference(r.id)>>)

move_from(bs, resource) ==
    LET Checked(msg) ==
            IF msg # "" THEN Panicked(msg)
            ELSE IF is_global_borrowed(bs, resource) THEN Err("GLOBAL_REFERENCE_ERROR", bs)
            ELSE Ok(bs, <<NonReference>>)
    IN Checked(all_starting_with_panic(bs))

\* the argument check of call for one mutable argument
call_conflicts(bs, id, all_references_to_borrow_from) ==
    LET conflicts == borrowed_by(bs, id, QueryFilter_empty)
    IN [conflicts EXCEPT !.equal = conflicts.equal \cap all_references_to_borrow_from]

\* the map over the return signature, allocating one reference per
\* reference-typed return value; panic is the message of the add_ref that
\* panicked, "" when none did
RECURSIVE call_returns(_, _, _, _, _, _)
call_returns(bs, offset, return_, i, all_refs, mut_refs) ==
    IF i > Len(return_) THEN [bs |-> bs, vals |-> <<>>, panic |-> ""]
    ELSE IF return_[i] = "MutableReference"
    THEN LET r == BorrowMap_extend_by_unknown(bs, mut_refs, TRUE, offset, i - 1)
             rest == call_returns(r.bs, offset, return_, i + 1, all_refs, mut_refs)
         IN IF r.panic # "" THEN [bs |-> r.bs, vals |-> <<>>, panic |-> r.panic]
            ELSE [rest EXCEPT !.vals = <<Reference(r.id)>> \o rest.vals]
    ELSE IF return_[i] = "Reference"
    THEN LET r == BorrowMap_extend_by_unknown(bs, all_refs, TRUE, offset, i - 1)
             rest == call_returns(r.bs, offset, return_, i + 1, all_refs, mut_refs)
         IN IF r.panic # "" THEN [bs |-> r.bs, vals |-> <<>>, panic |-> r.panic]
            ELSE [rest EXCEPT !.vals = <<Reference(r.id)>> \o rest.vals]
    ELSE LET rest == call_returns(bs, offset, return_, i + 1, all_refs, mut_refs)
         IN [rest EXCEPT !.vals = <<NonReference>> \o rest.vals]

RECURSIVE release_all(_, _)
release_all(bs, ids) ==
    IF ids = {} THEN bs
    ELSE LET id == CHOOSE x \in ids : \A y \in ids : x <= y
         IN release_all(BorrowMap_release(bs, id), ids \ {id})

\* The loop over the mutable arguments runs in the order of their ids and
\* returns at the first that has a conflict: stops is the set of arguments at
\* which it can stop, with a panic of borrowed_by or with the error.
call(bs, offset, arguments, acquired_resources, return_) ==
    LET all_references_to_borrow_from == ref_ids(arguments)
        mutable_args == {id \in all_references_to_borrow_from : is_mutable(bs, id)}
        Returned(rets) ==
            IF rets.panic # "" THEN Panicked(rets.panic)
            ELSE Ok(release_all(rets.bs, all_references_to_borrow_from), rets.vals)
        StoppedWith(msg) ==
            IF msg # "" THEN Panicked(msg)
            ELSE Err("CALL_BORROWED_MUTABLE_REFERENCE_ERROR", bs)
        StoppedAt(first) == StoppedWith(query_panic(bs, first, QueryFilter_empty))
        Looped(stops) ==
            IF stops # {} THEN StoppedAt(CHOOSE id \in stops : \A x \in stops : id <= x)
            ELSE Returned(call_returns(bs, offset, return_, 1,
                                       all_references_to_borrow_from, mutable_args))
        Acquired(msg) ==
            IF acquired_resources # {} /\ msg # "" THEN Panicked(msg)
            ELSE IF \E r \in acquired_resources : is_global_borrowed(bs, r)
            THEN Err("GLOBAL_REFERENCE_ERROR", bs)
            ELSE Looped({id \in mutable_args :
                            \/ query_panic(bs, id, QueryFilter_empty) # ""
                            \/ ~Conflicts_is_empty(
                                   call_conflicts(bs, id, all_references_to_borrow_from))})
    IN Acquired(all_starting_with_panic(bs))

\* the first loop of ret: release every local that is still bound
release_locals(bs) ==
    release_all(bs, {id \in PinnedIds : ~BorrowMap_is_pinned_released(bs, id)})

\* The loop over the mutable references returned runs in the order of the
\* values and returns at the first that has a conflict: stops is the set of
\* positions at which it can stop, with a panic of borrowed_by or with the
\* error.
ret(bs, values) ==
    LET StoppedWith(msg, released) ==
            IF msg # "" THEN Panicked(msg)
            ELSE Err("RET_BORROWED_MUTABLE_REFERENCE_ERROR", released)
        StoppedAt(first, released) ==
            StoppedWith(query_panic(released, values[first][2], QueryFilter_empty), released)
        Looped(stops, released) ==
            IF stops # {}
            THEN StoppedAt(CHOOSE i \in stops : \A x \in stops : i <= x, released)
            ELSE Ok(released, <<>>)
        Checked(msg, released) ==
            IF msg # "" THEN Panicked(msg)
            ELSE IF ~is_frame_safe_to_destroy(released)
            THEN Err("UNSAFE_RET_LOCAL_OR_RESOURCE_STILL_BORROWED", released)
            ELSE Looped({i \in DOMAIN values :
                            /\ is_reference(values[i])
                            /\ is_mutable(released, values[i][2])
                            /\ \/ query_panic(released, values[i][2], QueryFilter_empty) # ""
                               \/ ~Conflicts_is_empty(
                                      borrowed_by(released, values[i][2], QueryFilter_empty))},
                        released)
        Released(released) == Checked(all_starting_with_panic(released), released)
    IN Released(release_locals(bs))

(***************************************************************************)
(* Instructions.  An instruction is a record; execute dispatches it to the *)
(* entry point above with the operands popped from the operand stack.      *)
(***************************************************************************)
Fields == {0, 1}
Resources == {0}
ReturnSignatures ==
    {<<>>, <<"Reference">>, <<"MutableReference", "U64">>}

Instr(op, a) ==
    [op |-> op, a |-> a, mut |-> FALSE, n |-> 0, acq |-> {}, rets |-> <<>>]
InstrMut(op, a, mut_) == [Instr(op, a) EXCEPT !.mut = mut_]
InstrCall(n, acq, rets) == [Instr("Call", 0) EXCEPT !.n = n, !.acq = acq, !.rets = rets]

\* the number of operands the instruction pops
pops(instr, stk) ==
    CASE instr.op \in {"StLoc", "Pop", "FreezeRef", "ReadRef", "BorrowField", "BrTrue"} -> 1
      [] instr.op \in {"WriteRef", "Eq"} -> 2
      [] instr.op = "Call" -> instr.n
      [] instr.op = "Ret" -> Len(stk)
      [] OTHER -> 0

execute(bs, operands, offset, instr) ==
    LET top == operands[Len(operands)]
    IN CASE instr.op = "CopyLoc" -> copy_loc(bs, instr.a)
         [] instr.op = "MoveLoc" -> move_loc(bs, instr.a)
         [] instr.op = "StLoc" -> st_loc(bs, instr.a, top)
         [] instr.op = "Pop" -> Ok(release_value(bs, top), <<>>)
         [] instr.op = "FreezeRef" -> freeze_ref(bs, top[2])
         [] instr.op = "ReadRef" -> read_ref(bs, top[2])
         [] instr.op = "WriteRef" -> write_ref(bs, top[2])
         [] instr.op = "Eq" -> comparison(bs, operands[1], operands[2])
         [] instr.op = "BorrowLoc" -> borrow_loc(bs, instr.mut, instr.a)
         [] instr.op = "BorrowField" -> borrow_field(bs, instr.mut, top[2], instr.a)
         [] instr.op = "BorrowGlobal" -> borrow_global(bs, instr.mut, instr.a)
         [] instr.op = "MoveFrom" -> move_from(bs, instr.a)
         [] instr.op = "Call" -> call(bs, offset, operands, instr.acq, instr.rets)
         [] instr.op = "Ret" -> ret(bs, operands)
         [] instr.op = "LdTrue" -> Ok(bs, <<NonReference>>)
         [] OTHER -> Ok(bs, <<>>)

(***************************************************************************)
(* The analyzer selector of CodeUnitVerifier::verify_common.  The value of *)
(* the environment variable is a sequence of characters.                   *)
(***************************************************************************)
Unset == [set |-> FALSE, val |-> <<>>]
SetTo(text) == [set |-> TRUE, val |-> text]

TrueText == <<"t", "r", "u", "e">>
FalseText == <<"f", "a", "l", "s", "e">>

\* str::parse::<bool>: Some(b) as <<b>>, an error as <<>>
parse_bool(text) ==
    IF text = TrueText THEN <<TRUE>>
    ELSE IF text = FalseText THEN <<FALSE>>
    ELSE <<>>

Digits == <<"0", "1", "2", "3", "4", "5", "6", "7", "8", "9">>
IsDigit(c) == \E d \in DOMAIN Digits : Digits[d] = c
DigitValue(c) == (CHOOSE d \in DOMAIN Digits : Digits[d] = c) - 1

\* A usize is written as its decimal digits without leading zeros (its
\* values exceed the integers of the checker); usize has 64 bits.
One == <<"1">>
UsizeMax == <<"1", "8", "4", "4", "6", "7", "4", "4", "0", "7", "3", "7", "0", "9", "5",
              "5", "1", "6", "1", "5">>

RECURSIVE strip_zeros(_)
strip_zeros(digits) ==
    IF Len(digits) > 1 /\ digits[1] = "0" THEN strip_zeros(Tail(digits)) ELSE digits

\* a > b, for two numbers written without leading zeros
digits_greater(a, b) ==
    \/ Len(a) > Len(b)
    \/ /\ Len(a) = Len(b)
       /\ \E i \in DOMAIN a :
              /\ DigitValue(a[i]) > DigitValue(b[i])
              /\ \A j \in 1 .. (i - 1) : a[j] = b[j]

\* str::parse::<usize>: decimal digits after an optional plus sign, an
\* error when the number is above usize::MAX; Ok(n) as <<n>>, an error
\* as <<>>
parse_usize(text) ==
    LET digits == IF text # <<>> /\ text[1] = "+" THEN Tail(text) ELSE text
    IN IF digits = <<>> \/ \E i \in DOMAIN digits : ~IsDigit(digits[i]) THEN <<>>
       ELSE IF digits_greater(strip_zeros(digits), UsizeMax) THEN <<>>
       ELSE <<strip_zeros(digits)>>

\* the analyzer verify_common runs; `expect` panics when the variable is absent
verify_common(e) ==
    IF ~e.set THEN "panic"
    ELSE IF parse_bool(e.val) = <<TRUE>> \/ parse_usize(e.val) = <<One>> THEN "set_based"
    ELSE "graph"

\* the variables of the specification of the mutators at rest
NoCall ==
    [op |-> "none", id |-> 0, sources |-> {}, mutable |-> FALSE, offsets |-> <<>>,
     pre |-> [map |-> <<>>, next_id |-> 0], ret |-> 0, panic |-> "", n |-> 0]

MutatorIdle ==
    /\ bset = [map |-> <<>>, next_id |-> 0]
    /\ bset_new = <<>>
    /\ bset_call = NoCall

\* the symbol pool before any symbol is made
SymbolIdle ==
    /\ pool = <<>>
    /\ syms = <<>>

\* no control-flow graph is under construction
CfgIdle ==
    /\ cfg_code = <<>>
    /\ cfg_phase = "idle"
    /\ queue = <<>>
    /\ cur = -1      \* None
    /\ ordered_blocks = <<>>

\* no list is being parsed
ParserIdle ==
    /\ parse_in = <<>>
    /\ parse_out = <<>>

\* the surrounding components at rest
UtilitiesIdle == SymbolIdle /\ CfgIdle /\ ParserIdle

\* the selector once the set-based analyzer is running
SelectorIdle ==
    /\ env = SetTo(TrueText)
    /\ analyzer = "set_based"

(***************************************************************************)
(* Instruction sequences.  The operand stack and the choice of the next    *)
(* instruction follow the rules of the bytecode: an instruction is offered *)
(* only operands of the types the earlier passes (stack usage, type        *)
(* safety, locals safety) let through.                                     *)
(***************************************************************************)
\* the variables of the path-algebra and borrow-set specifications at rest
AlgebraIdle ==
    /\ paths_in = <<>>
    /\ orderings = <<>>
    /\ sets_in = <<>>
    /\ sets_out = <<>>

NoLast ==
    [op |-> "none", a |-> 0, mut |-> FALSE, operands |-> <<>>, acq |-> {},
     rets |-> <<>>, err |-> "", pre |-> InitialBorrowSet, vals |-> <<>>, panic |-> ""]

Top(n) == SubSeq(stack, Len(stack) - n + 1, Len(stack))
CanPush(pops_, pushes) == Len(stack) - pops_ + pushes <= MaxStack
TopType == stack_types[Len(stack_types)]
RefToken(mut_) == IF mut_ THEN "MutableReference" ELSE "Reference"

\* the signature tokens of the values the instruction pushes
pushed_types(instr) ==
    CASE instr.op \in {"CopyLoc", "MoveLoc"} -> <<LocalType(instr.a)>>
      [] instr.op = "FreezeRef" -> <<"Reference">>
      [] instr.op \in {"ReadRef", "MoveFrom"} -> <<"U64">>
      [] instr.op = "Eq" -> <<"Bool">>
      [] instr.op \in {"BorrowLoc", "BorrowField", "BorrowGlobal"} -> <<RefToken(instr.mut)>>
      [] instr.op = "Call" -> instr.rets
      [] OTHER -> <<>>
\* locals safety: the parameters hold a value on entry; the value local is
\* taken as assigned, the reference locals as not yet assigned
InitiallyAvailable == {i \in LocalIndexes : i < NumParams \/ ~IsRefType(LocalType(i))}

\* locals safety: a local can be read while it holds a value
Available(i) == i \in available

\* locals safety: MoveLoc leaves the local without a value, StLoc gives it one
available_after(avail, instr) ==
    IF instr.op = "MoveLoc" THEN avail \ {instr.a}
    ELSE IF instr.op = "StLoc" THEN avail \cup {instr.a}
    ELSE avail

\* the outcome of an instruction that panicked: the panic unwinds out of the
\* analysis, which returns nothing; the state is the one the instruction was
\* given
Unwound(bs, msg) == [err |-> "panic", bs |-> bs, vals |-> <<>>, panic |-> msg]

\* one instruction at offset pc
Step(instr) ==
    LET n == pops(instr, stack)
        Outcome(r) ==
            /\ borrow_set' = r.bs
            /\ stack' = IF r.err = "" THEN SubSeq(stack, 1, Len(stack) - n) \o r.vals ELSE stack
            /\ stack_types' = IF r.err = ""
                               THEN SubSeq(stack_types, 1, Len(stack_types) - n)
                                        \o pushed_types(instr)
                               ELSE stack_types
            /\ status' = IF r.panic # "" THEN "panic"
                         ELSE IF r.err # "" THEN "error"
                         ELSE IF instr.op = "Ret" THEN "returned" ELSE "running"
            /\ pc' = pc + 1
            /\ last' = [op |-> instr.op, a |-> IF instr.op = "Call" THEN pc ELSE instr.a,
                        mut |-> instr.mut, operands |-> Top(n), acq |-> instr.acq,
                        rets |-> instr.rets, err |-> r.err, pre |-> borrow_set,
                        vals |-> r.vals, panic |-> r.panic]
            /\ available' = IF r.err = "" THEN available_after(available, instr) ELSE available
        Executed(x) ==
            Outcome(IF panic_of(x) # "" THEN Unwound(borrow_set, panic_of(x))
                    ELSE [err |-> x.err, bs |-> x.bs, vals |-> x.vals, panic |-> ""])
    IN /\ Executed(execute(borrow_set, Top(n), pc, instr))
       /\ UNCHANGED <<prog, inv_map, next_block, visits, joins>>
       /\ UNCHANGED algebra_vars
       /\ UNCHANGED selector_vars
       /\ UNCHANGED mutator_vars
       /\ UNCHANGED build
       /\ UNCHANGED utility_vars

\* a reference that is not pinned and has no path
Unrooted(bs) == \E id \in Keys(bs) : ~bs.map[id].pinned /\ bs.map[id].paths = {}

\* A sequence is explored up to MaxCode instructions, and up to
\* MaxCodeUnrooted once it has made a reference without paths: the
\* instruction after that is where Ref::paths of a debug build fails.
Running ==
    /\ status = "running"
    /\ pc < (IF Unrooted(borrow_set) THEN MaxCodeUnrooted ELSE MaxCode)

CopyLoc ==
    \E i \in LocalIndexes :
        /\ Running /\ Available(i) /\ CanPush(0, 1)
        /\ Step(Instr("CopyLoc", i))

MoveLoc ==
    \E i \in LocalIndexes :
        /\ Running /\ Available(i) /\ CanPush(0, 1)
        /\ Step(Instr("MoveLoc", i))

StLoc ==
    \E i \in LocalIndexes :
        /\ Running /\ Len(stack) >= 1
        /\ IF IsRefType(LocalType(i)) THEN TopType = LocalType(i) ELSE ~IsRefType(TopType)
        /\ Step(Instr("StLoc", i))

Pop ==
    /\ Running /\ Len(stack) >= 1
    /\ Step(Instr("Pop", 0))

FreezeRef ==
    /\ Running /\ Len(stack) >= 1 /\ TopType = "MutableReference"
    /\ Step(Instr("FreezeRef", 0))

ReadRef ==
    /\ Running /\ Len(stack) >= 1 /\ IsRefType(TopType)
    /\ Step(Instr("ReadRef", 0))

WriteRef ==
    /\ Running /\ Len(stack) >= 2
    /\ TopType = "MutableReference"
    /\ ~IsRefType(stack_types[Len(stack_types) - 1])
    /\ Step(Instr("WriteRef", 0))

Eq ==
    /\ Running /\ Len(stack) >= 2
    /\ IsRefType(TopType) = IsRefType(stack_types[Len(stack_types) - 1])
    /\ Step(Instr("Eq", 0))

BorrowLoc ==
    \E i \in LocalIndexes, mut_ \in BOOLEAN :
        /\ Running /\ Available(i) /\ ~IsRefType(LocalType(i)) /\ CanPush(0, 1)
        /\ Step(InstrMut("BorrowLoc", i, mut_))

BorrowField ==
    \E f \in Fields, mut_ \in BOOLEAN :
        /\ Running /\ Len(stack) >= 1 /\ IsRefType(TopType)
        /\ (mut_ => TopType = "MutableReference")
        /\ Step(InstrMut("BorrowField", f, mut_))

BorrowGlobal ==
    \E r \in Resources, mut_ \in BOOLEAN :
        /\ Running /\ CanPush(0, 1)
        /\ Step(InstrMut("BorrowGlobal", r, mut_))

MoveFrom ==
    \E r \in Resources :
        /\ Running /\ CanPush(0, 1)
        /\ Step(Instr("MoveFrom", r))

Call ==
    \E n \in 0 .. MaxStack, acq \in SUBSET Resources, rets \in ReturnSignatures :
        /\ Running /\ n <= Len(stack) /\ CanPush(n, Len(rets))
        /\ Step(InstrCall(n, acq, rets))

Ret ==
    /\ Running
    /\ Step(Instr("Ret", 0))

Init ==
    /\ build \in Builds
    /\ borrow_set = InitialBorrowSet
    /\ stack = <<>>
    /\ stack_types = <<>>
    /\ status = "running"
    /\ pc = 0
    /\ last = NoLast
    /\ prog = <<>>
    /\ inv_map = <<>>
    /\ next_block = -1
    /\ visits = 0
    /\ joins = <<>>
    /\ available = InitiallyAvailable
    /\ SelectorIdle
    /\ MutatorIdle
    /\ UtilitiesIdle
    /\ AlgebraIdle

Next ==
    \/ CopyLoc \/ MoveLoc \/ StLoc \/ Pop \/ FreezeRef \/ ReadRef
    \/ WriteRef \/ Eq \/ BorrowLoc \/ BorrowField \/ BorrowGlobal \/ MoveFrom
    \/ Call \/ Ret

Spec == Init /\ [][Next]_vars

(***************************************************************************)
(* Joining abstract states                                                 *)
(***************************************************************************)
\* variant: the borrow sets are joined as they are
join_unrectified(self, other) == BorrowSet_join(self, other)

\* the rectification of join_: a local bound on one side only is released
\* on that side, then the borrow sets are joined
join_(self, other) ==
    LET self_set == release_all(self,
            {id \in PinnedIds : ~BorrowMap_is_pinned_released(self, id) /\ BorrowMap_is_pinned_released(other, id)})
        other_set == release_all(other,
            {id \in PinnedIds : BorrowMap_is_pinned_released(self, id) /\ ~BorrowMap_is_pinned_released(other, id)})
    IN BorrowSet_join(self_set, other_set)

is_covered_by(self, joined) == covers(self, joined)

\* AbstractDomain::join: the result, and self as the call leaves it.  A
\* panic of join_ or of is_covered_by leaves the call, and the analysis:
\* nothing is returned, self is as it was and panic is the message.
AbstractState_join(self, state) ==
    LET Unwinding(msg) == [result |-> "Panicked", pre |-> self, panic |-> msg]
        Covered(msg, joined) ==
            IF msg # "" THEN Unwinding(msg)
            ELSE IF is_covered_by(self, joined)
            THEN [result |-> "Unchanged", pre |-> self, joined |-> joined]
            ELSE [result |-> "Changed", pre |-> joined, joined |-> joined]
        Joined(joined) ==
            IF panic_of(joined) # "" THEN Unwinding(panic_of(joined))
            ELSE Covered(covers_panic(self, joined), joined)
    IN Joined(join_(self, state))

(***************************************************************************)
(* Control-flow graph of a code array: blocks are named by the offset of   *)
(* their first instruction.                                                *)
(***************************************************************************)
None == -1
ENTRY_BLOCK_ID == 0

Offsets(code) == 0 .. (Len(code) - 1)
At(code, pc_) == code[pc_ + 1]
is_branch(instr) == instr.op \in {"Branch", "BrTrue", "Ret"}
has_offset(instr) == instr.op \in {"Branch", "BrTrue"}

record_block_ids(code) ==
    {ENTRY_BLOCK_ID}
        \cup {At(code, p).a : p \in {q \in Offsets(code) : has_offset(At(code, q))}}
        \cup {p + 1 : p \in {q \in Offsets(code) : is_branch(At(code, q)) /\ q + 1 < Len(code)}}

get_successors(code, pc_) ==
    LET instr == At(code, pc_)
    IN IF instr.op = "Ret" THEN <<>>
       ELSE IF instr.op = "Branch" THEN <<instr.a>>
       ELSE IF pc_ + 1 >= Len(code)
       THEN (IF instr.op = "BrTrue" THEN <<instr.a>> ELSE <<>>)
       ELSE IF instr.op = "BrTrue" /\ instr.a # pc_ + 1 THEN <<instr.a, pc_ + 1>>
       ELSE <<pc_ + 1>>

is_end_of_block(code, pc_) == pc_ + 1 = Len(code) \/ (pc_ + 1) \in record_block_ids(code)

block_end(code, block_id) ==
    CHOOSE e \in Offsets(code) :
        /\ e >= block_id /\ is_end_of_block(code, e)
        /\ \A x \in block_id .. (e - 1) : ~is_end_of_block(code, x)

successors(code, block_id) == get_successors(code, block_end(code, block_id))

blocks(code) == {b \in record_block_ids(code) : b < Len(code)}

\* the block after block_id in traversal order (ascending entry offset)
cfg_next_block(code, block_id) ==
    LET later == {b \in blocks(code) : b > block_id}
    IN IF later = {} THEN None ELSE CHOOSE b \in later : \A c \in later : b <= c

SeqToSet(sq) == {sq[i] : i \in DOMAIN sq}

\* the blocks that hold the last back edge to a loop header, with the header
loop_last_continue_blocks(code) ==
    LET heads == {h \in blocks(code) :
                     \E b \in blocks(code) : b >= h /\ h \in SeqToSet(successors(code, b))}
        last_of(h) == CHOOSE b \in blocks(code) :
                         /\ b >= h /\ h \in SeqToSet(successors(code, b))
                         /\ \A c \in blocks(code) :
                               (c >= h /\ h \in SeqToSet(successors(code, c))) => c <= b
    IN [b \in {last_of(h) : h \in heads} |->
           CHOOSE h \in heads : last_of(h) = b /\ \A g \in heads : last_of(g) = b => g <= h]

(***************************************************************************)
(* The fixed-point driver.  inv_map maps a block to its pre-state and its  *)
(* postcondition; one action is one iteration of the loop of               *)
(* analyze_function.                                                       *)
(***************************************************************************)
Panic == -2

\* set_next_block!: indexing inv_map with a header it does not hold panics
set_next_block(code, inv, block_id) ==
    LET m == loop_last_continue_blocks(code)
    IN IF block_id \in DOMAIN m
       THEN IF m[block_id] \notin DOMAIN inv THEN Panic
            ELSE IF inv[m[block_id]].post = "Unprocessed" THEN m[block_id]
            ELSE cfg_next_block(code, block_id)
       ELSE cfg_next_block(code, block_id)

\* the loop of execute_block: panic is the message of the instruction that
\* panicked, "" when none did
RECURSIVE execute_from(_, _, _, _, _)
execute_from(code, offset, last_index, bs, stk) ==
    LET instr == At(code, offset)
        n == pops(instr, stk)
        Executed(r) ==
            IF panic_of(r) # "" THEN [err |-> "panic", bs |-> bs, panic |-> panic_of(r)]
            ELSE IF r.err # "" THEN [err |-> r.err, bs |-> r.bs, panic |-> ""]
            ELSE execute_from(code, offset + 1, last_index, r.bs,
                              SubSeq(stk, 1, Len(stk) - n) \o r.vals)
    IN IF offset > last_index THEN [err |-> "", bs |-> bs, panic |-> ""]
       ELSE Executed(execute(bs, SubSeq(stk, Len(stk) - n + 1, Len(stk)), offset, instr))

execute_block(code, block_id, pre_state) ==
    execute_from(code, block_id, block_end(code, block_id), pre_state, <<>>)

\* the loop over the successors of a block that succeeded with post_state;
\* returns the map and the joins performed, and the message of the join that
\* panicked ("" when none did): the loop goes no further than that join
RECURSIVE propagate(_, _, _, _, _)
propagate(inv, succs, i, post_state, done) ==
    LET next_block_id == succs[i]
        Joined(j) ==
            LET rec == [into |-> next_block_id, old_pre |-> inv[next_block_id].pre,
                        post |-> post_state, joined |-> j.joined,
                        result |-> j.result, new_pre |-> j.pre]
                inv2 == [inv EXCEPT ![next_block_id] =
                            [pre |-> j.pre,
                             post |-> IF j.result = "Changed" THEN "Unprocessed"
                                      ELSE inv[next_block_id].post]]
            IN IF panic_of(j) # ""
               THEN [inv |-> inv, joins |-> done, panic |-> panic_of(j)]
               ELSE propagate(inv2, succs, i + 1, post_state, Append(done, rec))
    IN IF i > Len(succs) THEN [inv |-> inv, joins |-> done, panic |-> ""]
       ELSE IF next_block_id \in DOMAIN inv
       THEN Joined(AbstractState_join(inv[next_block_id].pre, post_state))
       ELSE propagate(MapPut(inv, next_block_id, [pre |-> post_state, post |-> "Success"]),
                      succs, i + 1, post_state, done)

(***************************************************************************)
(* Functions analysed by the driver: code arrays assembled from            *)
(* stack-balanced fragments over the locals x (0, the &mut parameter),     *)
(* y (1, &mut), z (2, &) and v (3, u64).                                   *)
(***************************************************************************)
MaxVisits == 12

Fragments ==
    { <<>>,
      <<Instr("CopyLoc", 0), Instr("StLoc", 1)>>,
      <<InstrMut("BorrowLoc", 3, TRUE), Instr("StLoc", 1)>>,
      <<Instr("CopyLoc", 0), InstrMut("BorrowField", 0, TRUE), Instr("StLoc", 1)>>,
      <<Instr("CopyLoc", 0), Instr("StLoc", 1), Instr("MoveLoc", 1), Instr("Pop", 0)>>,
      <<InstrCall(0, {}, <<"MutableReference">>), Instr("StLoc", 1)>>,
      <<InstrMut("BorrowGlobal", 0, TRUE), Instr("StLoc", 1)>>,
      <<Instr("MoveFrom", 0), Instr("Pop", 0)>>,
      <<Instr("CopyLoc", 3), Instr("Pop", 0)>>,
      <<InstrMut("BorrowGlobal", 0, TRUE), Instr("StLoc", 1),
        Instr("MoveFrom", 0), Instr("Pop", 0)>> }

\* four blocks in a row
Chain(a, b) ==
    LET n1 == Len(a) + 1
        n2 == n1 + Len(b) + 1
    IN a \o <<Instr("Branch", n1)>> \o b \o <<Instr("Branch", n2)>>
         \o <<Instr("Nop", 0), Instr("Branch", n2 + 2), Instr("Ret", 0)>>

\* if .. then b else c, joined at the return
Diamond(a, b, c) ==
    LET t == Len(a) + 2 + Len(b) + 1
    IN a \o <<Instr("LdTrue", 0), Instr("BrTrue", t)>> \o b
         \o <<Instr("Branch", t + Len(c))>> \o c \o <<Instr("Ret", 0)>>

\* a; loop { b }; c
Loop(a, b, c) ==
    a \o b \o <<Instr("LdTrue", 0), Instr("BrTrue", Len(a))>> \o c \o <<Instr("Ret", 0)>>

\* a; loop { b; loop { c } }
Nested(a, b, c) ==
    a \o b \o c \o <<Instr("LdTrue", 0), Instr("BrTrue", Len(a) + Len(b)),
                     Instr("LdTrue", 0), Instr("BrTrue", Len(a)), Instr("Ret", 0)>>

Programs ==
    {Chain(a, b) : a \in Fragments, b \in Fragments}
        \cup {Diamond(a, b, c) : a \in Fragments, b \in Fragments, c \in Fragments}
        \cup {Loop(a, b, c) : a \in Fragments, b \in Fragments, c \in Fragments}
        \cup {Nested(a, b, c) : a \in Fragments, b \in Fragments, c \in Fragments}

\* the set-based analysis runs once it has been selected
Analyzing ==
    /\ analyzer = "set_based"
    /\ next_block \notin {None, Panic} /\ visits < MaxVisits

Iterate(inv, js, block_id) ==
    /\ inv_map' = inv
    /\ joins' = js
    /\ next_block' = set_next_block(prog, inv, block_id)
    /\ visits' = visits + 1
    /\ UNCHANGED <<borrow_set, stack, stack_types, status, pc, last, prog, available>>
    /\ UNCHANGED algebra_vars
    /\ UNCHANGED selector_vars
    /\ UNCHANGED mutator_vars
    /\ UNCHANGED build
    /\ UNCHANGED utility_vars

\* the block has no invariant: all its predecessors had errors
SkipBlock ==
    /\ Analyzing /\ next_block \notin DOMAIN inv_map
    /\ Iterate(inv_map, <<>>, next_block)

\* BlockPostcondition::Error(e) is written as the status code e
PostError(e) == e

\* variant: a block that failed hands the state it stopped in to its successors
block_failed_propagating(code, inv, block_id, r) ==
    propagate([inv EXCEPT ![block_id].post = PostError(r.err)],
              successors(code, block_id), 1, r.bs, <<>>).inv

\* the Err arm of the match on execute_block
block_failed(code, inv, block_id, r) == [inv EXCEPT ![block_id].post = PostError(r.err)]

BlockError ==
    /\ Analyzing /\ next_block \in DOMAIN inv_map
    /\ LET Executed(r) ==
               /\ r.panic = "" /\ r.err # ""
               /\ Iterate(block_failed(prog, inv_map, next_block, r), <<>>, next_block)
       IN Executed(execute_block(prog, next_block, inv_map[next_block].pre))

BlockSuccess ==
    /\ Analyzing /\ next_block \in DOMAIN inv_map
    /\ LET Propagated(p) ==
               /\ p.panic = ""
               /\ Iterate(p.inv, p.joins, next_block)
           Executed(r) ==
               /\ r.err = ""
               /\ Propagated(propagate([inv_map EXCEPT ![next_block].post = "Success"],
                                       successors(prog, next_block), 1, r.bs, <<>>))
       IN Executed(execute_block(prog, next_block, inv_map[next_block].pre))

\* The iteration ends in a panic, of an instruction of the block or of the
\* join into a successor: it unwinds out of analyze_function, which returns
\* nothing.  inv_map and joins are as the panic found them.
BlockPanic ==
    /\ Analyzing /\ next_block \in DOMAIN inv_map
    /\ LET Unwinding(msg, inv, js) ==
               /\ inv_map' = inv
               /\ joins' = js
               /\ next_block' = Panic
               /\ visits' = visits + 1
               /\ last' = [last EXCEPT !.err = "panic", !.panic = msg]
           Propagated(p) ==
               /\ p.panic # ""
               /\ Unwinding(p.panic, p.inv, p.joins)
           Executed(r) ==
               IF r.panic # "" THEN Unwinding(r.panic, inv_map, <<>>)
               ELSE /\ r.err = ""
                    /\ Propagated(propagate([inv_map EXCEPT ![next_block].post = "Success"],
                                            successors(prog, next_block), 1, r.bs, <<>>))
       IN Executed(execute_block(prog, next_block, inv_map[next_block].pre))
    /\ UNCHANGED <<borrow_set, stack, stack_types, status, pc, prog, available>>
    /\ UNCHANGED algebra_vars
    /\ UNCHANGED selector_vars
    /\ UNCHANGED mutator_vars
    /\ UNCHANGED build
    /\ UNCHANGED utility_vars

InitDriver ==
    /\ build \in Builds
    /\ borrow_set = InitialBorrowSet
    /\ stack = <<>>
    /\ stack_types = <<>>
    /\ status = "running"
    /\ pc = 0
    /\ last = NoLast
    /\ prog \in Programs
    /\ inv_map = (ENTRY_BLOCK_ID :> [pre |-> InitialBorrowSet, post |-> "Unprocessed"])
    /\ next_block = ENTRY_BLOCK_ID
    /\ visits = 0
    /\ joins = <<>>
    /\ available = InitiallyAvailable
    /\ SelectorIdle
    /\ MutatorIdle
    /\ UtilitiesIdle
    /\ AlgebraIdle

NextDriver == SkipBlock \/ BlockError \/ BlockSuccess \/ BlockPanic

SpecDriver == InitDriver /\ [][NextDriver]_vars

(***************************************************************************)
(* CodeUnitVerifier::verify_common: the environment variable SET_BASED is  *)
(* read, the analyzer is selected, and the set-based analysis of the       *)
(* function runs when it is the one selected.  The passes that come before *)
(* reference safety accept the programs drawn here.                        *)
(***************************************************************************)
EnvSettings ==
    {Unset, SetTo(TrueText), SetTo(FalseText), SetTo(<<"1">>), SetTo(<<"0">>),
     SetTo(<<>>), SetTo(<<"+", "1">>), SetTo(<<"T", "r", "u", "e">>),
     SetTo(<<"0", "1">>), SetTo(UsizeMax), SetTo(Append(UsizeMax, "1"))}

VerifyPrograms ==
    {Chain(a, b) : a \in Fragments, b \in Fragments}
        \cup {Loop(a, b, a) : a \in Fragments, b \in Fragments}

VerifyCommon ==
    /\ analyzer = "unselected"
    /\ analyzer' = verify_common(env)
    /\ UNCHANGED <<borrow_set, stack, stack_types, status, pc, last, prog, inv_map,
                   next_block, visits, joins, available, env>>
    /\ UNCHANGED algebra_vars
    /\ UNCHANGED mutator_vars
    /\ UNCHANGED build
    /\ UNCHANGED utility_vars

InitVerify ==
    /\ build \in Builds
    /\ borrow_set = InitialBorrowSet
    /\ stack = <<>>
    /\ stack_types = <<>>
    /\ status = "running"
    /\ pc = 0
    /\ last = NoLast
    /\ prog \in VerifyPrograms
    /\ inv_map = (ENTRY_BLOCK_ID :> [pre |-> InitialBorrowSet, post |-> "Unprocessed"])
    /\ next_block = ENTRY_BLOCK_ID
    /\ visits = 0
    /\ joins = <<>>
    /\ available = InitiallyAvailable
    /\ env \in EnvSettings
    /\ analyzer = "unselected"
    /\ MutatorIdle
    /\ UtilitiesIdle
    /\ AlgebraIdle

NextVerify == VerifyCommon \/ SkipBlock \/ BlockError \/ BlockSuccess \/ BlockPanic

SpecVerify == InitVerify /\ [][NextVerify]_vars

(***************************************************************************)
(* Path::compare on its own: the two paths are drawn from the paths the    *)
(* analysis builds (a root label or a wildcard, then fields and            *)
(* wildcards), and the one action compares them in both orders.            *)
(***************************************************************************)
MaxPathLen == 3

Wildcards == {Existential(0, 0), Existential(1, 0)}
RootOffsets == {Parameter(0), Local(3), Global(0)} \cup Wildcards
TailOffsets == {Field(f) : f \in Fields} \cup Wildcards

RECURSIVE PathsOfLen(_)
PathsOfLen(n) ==
    IF n = 1 THEN {Path_initial(o) : o \in RootOffsets}
    ELSE {Path_extend(path, o) : path \in PathsOfLen(n - 1), o \in TailOffsets}

Paths == UNION {PathsOfLen(n) : n \in 1 .. MaxPathLen}

\* the variables of the analysis at rest
AnalysisIdle ==
    /\ borrow_set = InitialBorrowSet
    /\ stack = <<>>
    /\ stack_types = <<>>
    /\ status = "running"
    /\ pc = 0
    /\ last = NoLast
    /\ prog = <<>>
    /\ inv_map = <<>>
    /\ next_block = None
    /\ visits = 0
    /\ joins = <<>>
    /\ available = InitiallyAvailable
    /\ SelectorIdle

Compare ==
    /\ orderings = <<>>
    /\ orderings' = <<compare(paths_in[1], paths_in[2]), compare(paths_in[2], paths_in[1])>>
    /\ UNCHANGED <<borrow_set, stack, stack_types, status, pc, last, prog, inv_map, next_block,
                   visits, joins, paths_in, sets_in, sets_out, available>>
    /\ UNCHANGED selector_vars
    /\ UNCHANGED mutator_vars
    /\ UNCHANGED build
    /\ UNCHANGED utility_vars

InitCompare ==
    /\ build \in Builds
    /\ AnalysisIdle
    /\ MutatorIdle
    /\ UtilitiesIdle
    /\ paths_in \in Paths \X Paths
    /\ orderings = <<>>
    /\ sets_in = <<>>
    /\ sets_out = <<>>

NextCompare == Compare

SpecCompare == InitCompare /\ [][NextCompare]_vars

(***************************************************************************)
(* BorrowSet::covers and BorrowSet::join on their own.  The sets are       *)
(* consistent worlds over the pinned references of the function: x keeps   *)
(* the parameter, y and z hold paths below it.                             *)
(***************************************************************************)
MaxPathSet == 2

JoinPaths ==
    {p \in Paths : Len(p) <= 2 /\ p[1] = Parameter(0)}
        \cup {<<Parameter(0), Field(0), Field(1)>>}

PathSets(universe) == {ps \in SUBSET universe : Cardinality(ps) <= MaxPathSet}

\* the initial borrow set with the paths of y and z replaced
World(y_paths, z_paths) ==
    [InitialBorrowSet EXCEPT !.map[locals[1]].paths = y_paths,
                             !.map[locals[2]].paths = z_paths]

Worlds ==
    {World(ps, zs) : ps \in PathSets(JoinPaths),
                     zs \in {{}, {<<Parameter(0), Field(0)>>}}}

CoversAndJoin ==
    /\ sets_out = <<>>
    /\ LET A == sets_in[1]
           B == sets_in[2]
           C == sets_in[3]
       IN sets_out' = [covers_aa |-> covers(A, A), covers_ab |-> covers(A, B),
                       covers_bc |-> covers(B, C), covers_ac |-> covers(A, C),
                       join_aa |-> BorrowSet_join(A, A),
                       join_ab |-> BorrowSet_join(A, B),
                       join_ba |-> BorrowSet_join(B, A)]
    /\ UNCHANGED <<borrow_set, stack, stack_types, status, pc, last, prog, inv_map, next_block,
                   visits, joins, paths_in, orderings, sets_in, available>>
    /\ UNCHANGED selector_vars
    /\ UNCHANGED mutator_vars
    /\ UNCHANGED build
    /\ UNCHANGED utility_vars

InitJoin ==
    /\ build \in Builds
    /\ AnalysisIdle
    /\ MutatorIdle
    /\ UtilitiesIdle
    /\ paths_in = <<>>
    /\ orderings = <<>>
    /\ sets_in \in Worlds \X Worlds \X Worlds
    /\ sets_out = <<>>

NextJoin == CoversAndJoin

SpecJoin == InitJoin /\ [][NextJoin]_vars

(***************************************************************************)
(* The mutators of set.rs applied to a borrow set: BorrowSet::new on up to *)
(* MaxInitialRefs entries, then up to MaxCalls calls of make_copy, freeze, *)
(* extend_by_labels, extend_by_unknown, release and join, on ids issued so *)
(* far.  A call that panics ends the run.                                  *)
(***************************************************************************)
MaxInitialRefs == 2
MaxCalls == 3
MaxRefs == 4        \* no reference is added to a set that has issued MaxRefs ids

\* the entries handed to BorrowSet::new: key i, a mutability, the label of
\* parameter i
RECURSIVE InitialRefsOfLen(_)
InitialRefsOfLen(n) ==
    IF n = 0 THEN {<<>>}
    ELSE {Append(refs, <<n - 1, mutable, Parameter(n - 1)>>) :
             refs \in InitialRefsOfLen(n - 1), mutable \in BOOLEAN}

InitialRefs == UNION {InitialRefsOfLen(n) : n \in 1 .. MaxInitialRefs}

\* the label vectors handed to extend_by_labels
LabelVectors == {<<>>, <<Field(0)>>, <<Global(0), Field(0)>>}

IssuedSoFar == 0 .. (bset.next_id - 1)

Calling == bset_new # <<>> /\ bset_call.panic = "" /\ bset_call.n < MaxCalls

Called(op, id, sources, mutable, offsets, returned, msg) ==
    [op |-> op, id |-> id, sources |-> sources, mutable |-> mutable, offsets |-> offsets,
     pre |-> bset, ret |-> returned, panic |-> msg, n |-> bset_call.n + 1]

MutatorFrame ==
    /\ UNCHANGED <<borrow_set, stack, stack_types, status, pc, last, prog, inv_map,
                   next_block, visits, joins, available, build>>
    /\ UNCHANGED algebra_vars
    /\ UNCHANGED selector_vars
    /\ UNCHANGED utility_vars

New ==
    \E initial_refs \in InitialRefs :
        LET r == BorrowSet_new(initial_refs)
        IN /\ bset_new = <<>>
           /\ bset_new' = <<[bs |-> r.bs, ids |-> r.ids, initial_refs |-> initial_refs]>>
           /\ bset' = r.bs
           /\ bset_call' = [NoCall EXCEPT !.op = "new", !.panic = r.panic]
           /\ MutatorFrame

MakeCopy ==
    \E id \in IssuedSoFar :
        LET r == make_copy(bset, id)
        IN /\ Calling
           /\ bset' = r.bs
           /\ bset_call' = Called("make_copy", id, {}, FALSE, <<>>, r.id, r.panic)
           /\ UNCHANGED bset_new
           /\ MutatorFrame

Freeze ==
    \E id \in IssuedSoFar :
        LET r == freeze(bset, id)
        IN /\ Calling
           /\ bset' = r.bs
           /\ bset_call' = Called("freeze", id, {}, FALSE, <<>>, id, r.panic)
           /\ UNCHANGED bset_new
           /\ MutatorFrame

ExtendByLabels ==
    \E sources \in SUBSET IssuedSoFar, mutable \in BOOLEAN, offsets \in LabelVectors :
        LET r == extend_by_labels(bset, sources, mutable, offsets)
        IN /\ Calling
           /\ bset.next_id < MaxRefs
           /\ bset' = r.bs
           /\ bset_call' = Called("extend_by_labels", 0, sources, mutable, offsets, r.id, r.panic)
           /\ UNCHANGED bset_new
           /\ MutatorFrame

ExtendByUnknown ==
    \E sources \in SUBSET IssuedSoFar, mutable \in BOOLEAN :
        LET r == extend_by_unknown(bset, sources, mutable)
        IN /\ Calling
           /\ bset.next_id < MaxRefs
           /\ bset' = r.bs
           /\ bset_call' = Called("extend_by_unknown", 0, sources, mutable, <<>>, r.id, r.panic)
           /\ UNCHANGED bset_new
           /\ MutatorFrame

Release ==
    \E id \in IssuedSoFar :
        LET r == release(bset, id)
        IN /\ Calling
           /\ bset' = r.bs
           /\ bset_call' = Called("release", id, {}, FALSE, <<>>, id, r.panic)
           /\ UNCHANGED bset_new
           /\ MutatorFrame

\* self.join(&self.clone()), the join of a state with an equal state: the
\* two worlds are consistent, every path of the clone is a path of self, so
\* the loop adds to a path set only paths the set holds, and the call ends
\* in set_next_id_after_join
Join ==
    LET checked == consistent_world(bset, bset)
        r == set_next_id_after_join(bset)
    IN /\ Calling
       /\ checked = ""
       /\ bset' = [map |-> r.map, next_id |-> r.next_id]
       /\ bset_call' = Called("join", 0, {}, FALSE, <<>>, 0, panic_of(r))
       /\ UNCHANGED bset_new
       /\ MutatorFrame

InitSet ==
    /\ build \in Builds
    /\ AnalysisIdle
    /\ AlgebraIdle
    /\ MutatorIdle
    /\ UtilitiesIdle

NextSet ==
    New \/ MakeCopy \/ Freeze \/ ExtendByLabels \/ ExtendByUnknown \/ Release \/ Join

SpecSet == InitSet /\ [][NextSet]_vars

(***************************************************************************)
(* Symbols (move-symbol-pool/src/symbol.rs).  A string is a sequence of    *)
(* bytes; the u64 of a Symbol is written as its eight bytes, lowest first  *)
(* (a little-endian target), so that byte k + 1 of the tuple is byte k of  *)
(* the value.  The pool hands out the address of the entry of a string:    *)
(* entry k of the pool lives at address ENTRY_ALIGN * k.                   *)
(***************************************************************************)
DYNAMIC_TAG == 0
INLINE_TAG == 1
TAG_MASK == 3
LEN_OFFSET == 4
LEN_MASK == 240
MAX_INLINE_LEN == 7
ENTRY_ALIGN == 8

MaxSymLen == 8       \* longest string made into a symbol
MaxSyms == 2         \* number of symbols made

SymbolBytes == {0, 97}

RECURSIVE StringsOfLen(_)
StringsOfLen(n) ==
    IF n = 0 THEN {<<>>}
    ELSE {Append(s, b) : s \in StringsOfLen(n - 1), b \in SymbolBytes}

Strings == UNION {StringsOfLen(n) : n \in 0 .. MaxSymLen}

\* u64::to_le_bytes, for the k lowest bytes
RECURSIVE le_bytes(_, _)
le_bytes(n, k) == IF k = 0 THEN <<>> ELSE <<n % 256>> \o le_bytes(n \div 256, k - 1)

\* u64::from_le_bytes
RECURSIVE from_le_bytes(_)
from_le_bytes(bytes) ==
    IF bytes = <<>> THEN 0 ELSE bytes[1] + 256 * from_le_bytes(Tail(bytes))

\* Pool::insert: the entry of the string, added at the end when it is new;
\* returns the pool and the address of the entry
Pool_insert(p, s) ==
    IF \E k \in DOMAIN p : p[k] = s
    THEN [pool |-> p, address |-> ENTRY_ALIGN * (CHOOSE k \in DOMAIN p : p[k] = s)]
    ELSE [pool |-> Append(p, s), address |-> ENTRY_ALIGN * (Len(p) + 1)]

\* the seven bytes above the tag byte, the string copied to their start
inline_symbol_slice(s) == [k \in 1 .. 7 |-> IF k <= Len(s) THEN s[k] ELSE 0]

\* variant: the length of an inlined string is not stored with the tag
Symbol_from_without_length(p, s) ==
    IF Len(s) <= MAX_INLINE_LEN
    THEN [pool |-> p, value |-> <<INLINE_TAG>> \o inline_symbol_slice(s)]
    ELSE LET r == Pool_insert(p, s)
         IN [pool |-> r.pool, value |-> le_bytes(r.address, 8)]

\* impl From<Cow<str>> for Symbol: returns the pool and the value of the
\* symbol; the tag and the length (shifted by LEN_OFFSET) share byte 0
Symbol_from(p, s) ==
    IF Len(s) <= MAX_INLINE_LEN
    THEN [pool |-> p,
          value |-> <<INLINE_TAG + Len(s) * 2 ^ LEN_OFFSET>> \o inline_symbol_slice(s)]
    ELSE LET r == Pool_insert(p, s)
         IN [pool |-> r.pool, value |-> le_bytes(r.address, 8)]

\* Symbol::tag: the value masked by TAG_MASK; debug_assert! rejects a tag
\* that is neither of the two
Symbol_tag(value) ==
    IF value[1] % (TAG_MASK + 1) = DYNAMIC_TAG THEN "Dynamic"
    ELSE IF debug_assertions /\ value[1] % (TAG_MASK + 1) # INLINE_TAG
    THEN Panicked("assertion failed: tag == (Tag::Inlined as u8)")
    ELSE "Inlined"

\* impl Deref for Symbol: the string of the entry pointed to, or the first
\* len bytes above the tag byte, len being the value masked by LEN_MASK and
\* shifted down by LEN_OFFSET
Symbol_deref(p, value) ==
    IF Symbol_tag(value) = "Dynamic"
    THEN p[from_le_bytes(value) \div ENTRY_ALIGN]
    ELSE LET masked == (value[1] % 256) - (value[1] % (256 - LEN_MASK))
             len == masked \div 2 ^ LEN_OFFSET
         IN SubSeq(value, 2, 1 + len)

Symbol_as_str(p, value) == Symbol_deref(p, value)

From ==
    \E s \in Strings :
        /\ Len(syms) < MaxSyms
        /\ LET r == Symbol_from(pool, s)
           IN /\ pool' = r.pool
              /\ syms' = Append(syms, [s |-> s, value |-> r.value])
        /\ UNCHANGED <<borrow_set, stack, stack_types, status, pc, last, prog, inv_map,
                       next_block, visits, joins, available>>
        /\ UNCHANGED algebra_vars
        /\ UNCHANGED selector_vars
        /\ UNCHANGED mutator_vars
        /\ UNCHANGED build
        /\ UNCHANGED <<cfg_vars, parser_vars>>

InitSymbol ==
    /\ build \in Builds
    /\ AnalysisIdle
    /\ AlgebraIdle
    /\ MutatorIdle
    /\ UtilitiesIdle

NextSymbol == From

SpecSymbol == InitSymbol /\ [][NextSymbol]_vars

(***************************************************************************)
(* Construction of the control-flow graph.  VMControlFlowGraph::new        *)
(* collects the blocks, then runs a queue over them and sorts the block    *)
(* ids by depth; an iteration of the queue loop is two steps.               *)
(***************************************************************************)
MaxCfgCode == 3      \* length of the longest code array a graph is built of
MaxQueue == 4        \* longest queue explored

\* the instructions that shape the graph of a code array of n instructions
CfgInstrs(n) ==
    {Instr("Nop", 0), Instr("Ret", 0)}
        \cup {Instr("Branch", t) : t \in 0 .. (n - 1)}
        \cup {Instr("BrTrue", t) : t \in 0 .. (n - 1)}

CfgCodes == UNION {[1 .. n -> CfgInstrs(n)] : n \in 1 .. MaxCfgCode}

\* the depth map: every block is entered with 0, and the loop writes none
depths(code) == [id \in blocks(code) |-> 0]

\* the ids ordered by key; ids with the same key stay in ascending order,
\* the order of the keys of the block map
RECURSIVE sort_by_key(_, _)
sort_by_key(ids, key) ==
    IF ids = {} THEN <<>>
    ELSE LET first == CHOOSE i \in ids :
                          \A j \in ids : key[i] < key[j] \/ (key[i] = key[j] /\ i <= j)
         IN <<first>> \o sort_by_key(ids \ {first}, key)

\* blocks, predecessors and depths are built; the entry block is queued
CfgNew ==
    /\ cfg_phase = "new"
    /\ cfg_phase' = "loop"
    /\ queue' = <<ENTRY_BLOCK_ID>>
    /\ UNCHANGED <<cfg_code, cur, ordered_blocks>>
    /\ UNCHANGED <<borrow_set, stack, stack_types, status, pc, last, prog, inv_map,
                   next_block, visits, joins, available>>
    /\ UNCHANGED algebra_vars
    /\ UNCHANGED selector_vars
    /\ UNCHANGED mutator_vars
    /\ UNCHANGED build
    /\ UNCHANGED <<symbol_vars, parser_vars>>

\* while let Some(cur) = queue.pop_front()
PopFront ==
    /\ cfg_phase = "loop" /\ queue # <<>>
    /\ cur' = Head(queue)
    /\ queue' = Tail(queue)
    /\ cfg_phase' = "body"
    /\ UNCHANGED <<cfg_code, ordered_blocks>>
    /\ UNCHANGED <<borrow_set, stack, stack_types, status, pc, last, prog, inv_map,
                   next_block, visits, joins, available>>
    /\ UNCHANGED algebra_vars
    /\ UNCHANGED selector_vars
    /\ UNCHANGED mutator_vars
    /\ UNCHANGED build
    /\ UNCHANGED <<symbol_vars, parser_vars>>

\* the body of the loop: new_depth is computed and dropped, and every
\* successor of cur is pushed, whether or not it was queued before
PushSuccessors ==
    /\ cfg_phase = "body"
    /\ Len(queue \o successors(cfg_code, cur)) <= MaxQueue
    /\ queue' = queue \o successors(cfg_code, cur)
    /\ cur' = None
    /\ cfg_phase' = "loop"
    /\ UNCHANGED <<cfg_code, ordered_blocks>>
    /\ UNCHANGED <<borrow_set, stack, stack_types, status, pc, last, prog, inv_map,
                   next_block, visits, joins, available>>
    /\ UNCHANGED algebra_vars
    /\ UNCHANGED selector_vars
    /\ UNCHANGED mutator_vars
    /\ UNCHANGED build
    /\ UNCHANGED <<symbol_vars, parser_vars>>

\* the queue is empty: the block ids are sorted by depth
Finish ==
    /\ cfg_phase = "loop" /\ queue = <<>>
    /\ ordered_blocks' = <<sort_by_key(blocks(cfg_code), depths(cfg_code))>>
    /\ cfg_phase' = "done"
    /\ UNCHANGED <<cfg_code, queue, cur>>
    /\ UNCHANGED <<borrow_set, stack, stack_types, status, pc, last, prog, inv_map,
                   next_block, visits, joins, available>>
    /\ UNCHANGED algebra_vars
    /\ UNCHANGED selector_vars
    /\ UNCHANGED mutator_vars
    /\ UNCHANGED build
    /\ UNCHANGED <<symbol_vars, parser_vars>>

InitCfg ==
    /\ build \in Builds
    /\ AnalysisIdle
    /\ AlgebraIdle
    /\ MutatorIdle
    /\ SymbolIdle
    /\ ParserIdle
    /\ cfg_code \in CfgCodes
    /\ cfg_phase = "new"
    /\ queue = <<>>
    /\ cur = None
    /\ ordered_blocks = <<>>

NextCfg == CfgNew \/ PopFront \/ PushSuccessors \/ Finish

\* the loop runs on: an iteration that can be taken is taken
SpecCfg == InitCfg /\ [][NextCfg]_vars /\ WF_vars(NextCfg)

(***************************************************************************)
(* The list parser of the command line.  A token is written as its         *)
(* contents; the parser is the sequence of tokens it has not consumed.     *)
(* Results carry the tokens left: [ok, val, rest].                         *)
(***************************************************************************)
MaxTokens == 4       \* longest token sequence parsed

ItemTokens == {"u8", "u64"}
Comma == ","
Gt == ">"
Tokens == ItemTokens \cup {Comma, Gt}

RECURSIVE TokensOfLen(_)
TokensOfLen(n) ==
    IF n = 0 THEN {<<>>}
    ELSE {Append(ts, t) : ts \in TokensOfLen(n - 1), t \in Tokens}

TokenStreams == UNION {TokensOfLen(n) : n \in 0 .. MaxTokens}

Parsed(val, rest) == [ok |-> TRUE, val |-> val, rest |-> rest]
Bailed(msg, rest) == [ok |-> FALSE, val |-> msg, rest |-> rest]

\* Parser::next
Parser_next(it) ==
    IF it = <<>> THEN Bailed("unexpected end of tokens", it)
    ELSE Parsed(Head(it), Tail(it))

\* Parser::peek_tok: Some(tok) as <<tok>>, None as <<>>
peek_tok(it) == IF it = <<>> THEN <<>> ELSE <<Head(it)>>

\* Parser::consume
consume(it, tok) ==
    LET r == Parser_next(it)
    IN IF ~r.ok THEN r
       ELSE IF r.val # tok THEN Bailed("expected token", r.rest)
       ELSE r

\* the item parser handed to parse_list: parse_type on the primitive types
parse_type(it) ==
    LET r == Parser_next(it)
    IN IF ~r.ok THEN r
       ELSE IF r.val \in ItemTokens THEN r
       ELSE Bailed("unexpected token", r.rest)

\* the closure is_end of parse_list
is_end(tok_opt, end_token) == tok_opt = <<>> \/ tok_opt[1] = end_token

\* the while loop of parse_list, from its condition, with the items v
RECURSIVE parse_list_loop(_, _, _, _, _)
parse_list_loop(it, v, delim, end_token, allow_trailing_delim) ==
    IF is_end(peek_tok(it), end_token) THEN Parsed(v, it)
    ELSE LET item == parse_type(it)
         IN IF ~item.ok THEN item
            ELSE IF is_end(peek_tok(item.rest), end_token)
            THEN Parsed(Append(v, item.val), item.rest)
            ELSE LET c == consume(item.rest, delim)
                 IN IF ~c.ok THEN c
                    ELSE IF is_end(peek_tok(c.rest), end_token) /\ allow_trailing_delim
                    THEN Parsed(Append(v, item.val), c.rest)
                    ELSE parse_list_loop(c.rest, Append(v, item.val), delim, end_token,
                                         allow_trailing_delim)

parse_list(it, delim, end_token, allow_trailing_delim) ==
    parse_list_loop(it, <<>>, delim, end_token, allow_trailing_delim)

ParseList ==
    /\ parse_in # <<>> /\ parse_out = <<>>
    /\ parse_out' = <<parse_list(parse_in[1].tokens, Comma, Gt,
                                 parse_in[1].allow_trailing_delim)>>
    /\ UNCHANGED parse_in
    /\ UNCHANGED <<borrow_set, stack, stack_types, status, pc, last, prog, inv_map,
                   next_block, visits, joins, available>>
    /\ UNCHANGED algebra_vars
    /\ UNCHANGED selector_vars
    /\ UNCHANGED mutator_vars
    /\ UNCHANGED build
    /\ UNCHANGED <<symbol_vars, cfg_vars>>

InitParse ==
    /\ build \in Builds
    /\ AnalysisIdle
    /\ AlgebraIdle
    /\ MutatorIdle
    /\ SymbolIdle
    /\ CfgIdle
    /\ \E ts \in TokenStreams, allow \in BOOLEAN :
           parse_in = <<[tokens |-> ts, allow_trailing_delim |-> allow]>>
    /\ parse_out = <<>>

NextParse == ParseList

SpecParse == InitParse /\ [][NextParse]_vars

(***************************************************************************)
(* Properties of the transfer function (checked under Spec).               *)
(* last.pre is the borrow set the last instruction started from and        *)
(* last.operands the values it popped.                                     *)
(***************************************************************************)
\* the orderings of the data model: q is a strict extension of p when p is
\* a strict prefix of q
StrictPrefix(p, q) == Len(p) < Len(q) /\ SubSeq(q, 1, Len(p)) = p

\* some path of reference o strictly extends some path of reference id
StrictlyExtends(bs, o, id) ==
    \E p \in bs.map[id].paths, q \in bs.map[o].paths : StrictPrefix(p, q)

\* some path of reference o extends some path of reference id at offset x
ExtendsAt(bs, o, id, x) ==
    \E p \in bs.map[id].paths, q \in bs.map[o].paths :
        StrictPrefix(p, q) /\ q[Len(p) + 1] = x

RootedAtLocalOrGlobal(bs) ==
    \E id \in Keys(bs) : \E p \in bs.map[id].paths : p[1][1] \in {"Local", "Global"}

OperandIds == ref_ids(last.operands)
TopOperandId == last.operands[Len(last.operands)][2]

\* C1: Ret fails with UNSAFE_RET_LOCAL_OR_RESOURCE_STILL_BORROWED whenever,
\* once the locals have been released, a live reference has a path that
\* starts with a Local or a Global label.
C1_RetRejectsLocalOrGlobalRoots ==
    (last.op = "Ret" /\ RootedAtLocalOrGlobal(release_locals(last.pre)))
        => last.err = "UNSAFE_RET_LOCAL_OR_RESOURCE_STILL_BORROWED"

\* C2: a mutable reference id is writable, and WriteRef(id) succeeds, only
\* if no other live reference strictly extends a path of id; WriteRef fails
\* only with WRITEREF_EXISTS_BORROW_ERROR.
C2_WriteRefOnlyWithoutExtensions ==
    /\ \A id \in {i \in Keys(borrow_set) : is_mutable(borrow_set, i)} :
          is_writable(borrow_set, id) =>
              \A o \in Keys(borrow_set) \ {id} : ~StrictlyExtends(borrow_set, o, id)
    /\ last.op = "WriteRef" =>
          /\ last.err \in {"", "WRITEREF_EXISTS_BORROW_ERROR"}
          /\ last.err = "" =>
                \A o \in Keys(last.pre) \ {TopOperandId} :
                    ~StrictlyExtends(last.pre, o, TopOperandId)

\* C3: Call passes its argument check only if every mutable argument has no
\* strict extension held by another live reference and no parent among the
\* arguments.
C3_CallOnlyWithTransferableArguments ==
    (last.op = "Call" /\ last.err = "") =>
        \A id \in {a \in OperandIds : is_mutable(last.pre, a)} :
            /\ \A o \in Keys(last.pre) \ {id} : ~StrictlyExtends(last.pre, o, id)
            /\ \A o \in OperandIds \ {id} : ~StrictlyExtends(last.pre, id, o)

\* C4: MoveFrom(r), and Call acquiring r, fail with GLOBAL_REFERENCE_ERROR
\* iff some live reference has a path whose first offset is Global(r); a
\* successful MoveFrom yields NonReference and leaves the borrow set as it was.
GlobalRooted(bs, r) ==
    \E id \in Keys(bs) : \E p \in bs.map[id].paths : p[1] = Global(r)

C4_GlobalReferenceError ==
    /\ last.op = "MoveFrom" =>
          /\ (last.err = "GLOBAL_REFERENCE_ERROR") = GlobalRooted(last.pre, last.a)
          /\ last.err \in {"", "GLOBAL_REFERENCE_ERROR"}
          /\ last.err = "" => last.vals = <<NonReference>> /\ borrow_set = last.pre
    /\ last.op = "Call" =>
          (last.err = "GLOBAL_REFERENCE_ERROR") = (\E r \in last.acq : GlobalRooted(last.pre, r))

\* C5: once the frame-safety check has passed, Ret succeeds only if every
\* mutable returned reference has no strict extension held by another live
\* reference and no parent among the returned references.
C5_RetOnlyWithTransferableReferences ==
    (last.op = "Ret" /\ last.err = "") =>
        LET released == release_locals(last.pre)
        IN \A id \in {a \in OperandIds : is_mutable(released, a)} :
               /\ \A o \in Keys(released) \ {id} : ~StrictlyExtends(released, o, id)
               /\ \A o \in OperandIds \ {id} : ~StrictlyExtends(released, id, o)

\* C6: a mutable reference is readable only if no other mutable reference
\* extends one of its paths at a wildcard and, for at_field = None, none
\* extends it at all, or, for at_field = Some(f), none extends it at
\* Field(f); ReadRef succeeds on it only if it is readable at None.
ExtendsAtWildcard(bs, o, id) ==
    \E p \in bs.map[id].paths, q \in bs.map[o].paths :
        StrictPrefix(p, q) /\ IsExistential(q[Len(p) + 1])

MutableOthers(bs, id) == {o \in Keys(bs) \ {id} : is_mutable(bs, o)}

C6_ReadableOnlyWithoutMutableExtensions ==
    /\ \A id \in {i \in Keys(borrow_set) : is_mutable(borrow_set, i)} :
          /\ is_readable(borrow_set, id, NoField) =>
                \A o \in MutableOthers(borrow_set, id) :
                    ~StrictlyExtends(borrow_set, o, id)
          /\ \A f \in Fields :
                is_readable(borrow_set, id, f) =>
                    \A o \in MutableOthers(borrow_set, id) :
                        /\ ~ExtendsAt(borrow_set, o, id, Field(f))
                        /\ ~ExtendsAtWildcard(borrow_set, o, id)
    /\ (last.op = "ReadRef" /\ last.err = "" /\ is_mutable(last.pre, TopOperandId)) =>
          \A o \in MutableOthers(last.pre, TopOperandId) :
              ~StrictlyExtends(last.pre, o, TopOperandId)

(***************************************************************************)
(* Properties of the driver (checked under SpecDriver).  joins holds the   *)
(* joins of the last iteration: the pre-state joined into, the incoming    *)
(* post-state, the joined state and the pre-state the join left.           *)
(***************************************************************************)
\* C7: in the state that joins a block's pre-state with an incoming
\* post-state, the pinned reference of a local is released iff it is
\* released in at least one of the two, and it keeps paths iff it is bound
\* in both.
C7_JoinReleasesOneSidedLocals ==
    \A i \in DOMAIN joins :
        \A id \in PinnedIds :
            BorrowMap_is_pinned_released(joins[i].joined, id)
                <=> (BorrowMap_is_pinned_released(joins[i].old_pre, id)
                        \/ BorrowMap_is_pinned_released(joins[i].post, id))

\* a join met a local bound on one side and released on the other
C7_Witness ==
    \E i \in DOMAIN joins :
        \E id \in PinnedIds :
            /\ ~BorrowMap_is_pinned_released(joins[i].old_pre, id)
            /\ BorrowMap_is_pinned_released(joins[i].post, id)
            /\ BorrowMap_is_pinned_released(joins[i].joined, id)

\* C8: a join returns Unchanged iff the joined state releases no local that
\* the old pre-state held bound and the old pre-state covers the joined
\* borrow set; Unchanged leaves the pre-state as it was and Changed replaces
\* it by the joined state.
C8_UnchangedIffNoReleaseAndCovered ==
    \A i \in DOMAIN joins :
        LET j == joins[i]
            flag_changed == \E id \in PinnedIds :
                                BorrowMap_is_pinned_released(j.old_pre, id) # BorrowMap_is_pinned_released(j.joined, id)
        IN /\ (j.result = "Unchanged") <=> (~flag_changed /\ covers(j.old_pre, j.joined))
           /\ j.result = "Unchanged" => j.new_pre = j.old_pre
           /\ j.result = "Changed" => j.new_pre = j.joined

\* C9: the driver reaches a state with no next block, after at most
\* pinned_refs * (labels + wildcards) block visits.
LabelsOf(code) ==
    {Parameter(i) : i \in 0 .. (NumParams - 1)}
        \cup {Local(At(code, p).a) : p \in {q \in Offsets(code) : At(code, q).op = "BorrowLoc"}}
        \cup {Field(At(code, p).a) : p \in {q \in Offsets(code) : At(code, q).op = "BorrowField"}}
        \cup {Global(At(code, p).a) : p \in {q \in Offsets(code) : At(code, q).op = "BorrowGlobal"}}

WildcardsOf(code) ==
    UNION {{<<p, k>> : k \in {i \in DOMAIN At(code, p).rets : IsRefType(At(code, p).rets[i])}} :
              p \in {q \in Offsets(code) : At(code, q).op = "Call"}}

VisitBound(code) ==
    Cardinality(PinnedIds) * (Cardinality(LabelsOf(code)) + Cardinality(WildcardsOf(code)))

C9_TerminatesWithinBound ==
    /\ next_block # Panic
    /\ visits <= VisitBound(prog)

\* C10: when the driver has no next block, no block is Unprocessed, and
\* every successor of a Success block has an invariant that the post-state
\* of the block joins into without change.
C10_FixedPoint ==
    next_block = None =>
        /\ \A b \in DOMAIN inv_map : inv_map[b].post # "Unprocessed"
        /\ \A b \in {c \in DOMAIN inv_map : inv_map[c].post = "Success"} :
              \A s \in SeqToSet(successors(prog, b)) :
                  /\ s \in DOMAIN inv_map
                  /\ AbstractState_join(inv_map[s].pre,
                        execute_block(prog, b, inv_map[b].pre).bs).result = "Unchanged"

\* C11: when executing a block returns an error e, the visit sets the
\* block's postcondition to Error(e) and leaves every other invariant as it
\* was: no successor gets an invariant, a new pre-state or a reset
\* postcondition, and the block keeps its own pre-state.
IsPostError(post) == post \notin {"Unprocessed", "Success"}

C11_ErrorLeavesSuccessorsAlone ==
    [][(/\ Analyzing /\ next_block \in DOMAIN inv_map
        /\ execute_block(prog, next_block, inv_map[next_block].pre).err # "")
       => /\ DOMAIN inv_map' = DOMAIN inv_map
          /\ inv_map'[next_block].post =
                PostError(execute_block(prog, next_block, inv_map[next_block].pre).err)
          /\ inv_map'[next_block].pre = inv_map[next_block].pre
          /\ \A s \in DOMAIN inv_map \ {next_block} : inv_map'[s] = inv_map[s]
          /\ joins' = <<>>]_vars

\* a block failed whose successors are a block that has an invariant (the
\* block itself, by a back edge) and a block that has none
C11_Witness ==
    \E b \in DOMAIN inv_map :
        /\ IsPostError(inv_map[b].post)
        /\ b \in SeqToSet(successors(prog, b))
        /\ \E s \in SeqToSet(successors(prog, b)) : s \notin DOMAIN inv_map

(***************************************************************************)
(* Properties of Path::compare (checked under SpecCompare).                *)
(***************************************************************************)
Compared == orderings # <<>>

Min(a, b) == IF a <= b THEN a ELSE b

\* the first position at which both paths have an offset and the offsets
\* differ; 0 when one path is a prefix of the other
FirstDifference(p, q) ==
    LET d == {k \in 1 .. Min(Len(p), Len(q)) : p[k] # q[k]}
    IN IF d = {} THEN 0 ELSE CHOOSE k \in d : \A j \in d : k <= j

\* the paths first differ, after the root, in a wildcard against a label
WildcardMeetsLabel(p, q) ==
    LET k == FirstDifference(p, q)
    IN k >= 2 /\ IsExistential(p[k]) # IsExistential(q[k])

Orders == {"Equal", "LeftExtendsRight", "RightExtendsLeft", "Incomparable"}

\* compare(p, q) and compare(q, p) are duals
Dual(a, b) ==
    /\ (a.ord = "Equal") <=> (b.ord = "Equal")
    /\ (a.ord = "Incomparable") <=> (b.ord = "Incomparable")
    /\ (a.ord = "LeftExtendsRight") <=> (b.ord = "RightExtendsLeft")
    /\ (a.ord = "RightExtendsLeft") <=> (b.ord = "LeftExtendsRight")

\* C12 as stated: for any two paths, compare returns one of the four
\* orderings and compare(q, p) is the dual of compare(p, q), wildcards
\* included.
C12_CompareDual ==
    Compared =>
        /\ orderings[1].ord \in Orders /\ orderings[2].ord \in Orders
        /\ Dual(orderings[1], orderings[2])

\* C12: compare returns one of the four orderings, and compare(q, p) is the
\* dual of compare(p, q) unless the paths first differ, after the root, in a
\* wildcard against a label: then both orders return RightExtendsLeft.
C12_CompareDualButForWildcards ==
    Compared =>
        /\ orderings[1].ord \in Orders /\ orderings[2].ord \in Orders
        /\ IF WildcardMeetsLabel(paths_in[1], paths_in[2])
           THEN orderings[1].ord = "RightExtendsLeft" /\ orderings[2].ord = "RightExtendsLeft"
           ELSE Dual(orderings[1], orderings[2])

\* a wildcard met a label after a common prefix of two paths of different
\* lengths, and neither order reported LeftExtendsRight
C12_Witness ==
    /\ Compared
    /\ WildcardMeetsLabel(paths_in[1], paths_in[2])
    /\ Len(paths_in[1]) > Len(paths_in[2])
    /\ orderings[1].ord = "RightExtendsLeft" /\ orderings[2].ord = "RightExtendsLeft"

\* C13 as stated: when two paths agree before position k >= 1 (counted
\* from 0) and differ there in a wildcard against a label, a
\* RightExtendsLeft(ext) result carries the label as ext.
C13_MismatchCarriesLabel ==
    (Compared /\ WildcardMeetsLabel(paths_in[1], paths_in[2])) =>
        \A i \in 1 .. 2 :
            orderings[i].ord = "RightExtendsLeft" => IsLabeled(orderings[i].ext)

\* C13: when two paths agree before position k >= 1 and differ there in a
\* wildcard against a label, compare returns RightExtendsLeft(ext) where ext
\* is the offset of its right-hand path at k: the label when the right-hand
\* path holds the label, the wildcard when it holds the wildcard.
C13_MismatchCarriesRightOffset ==
    (Compared /\ WildcardMeetsLabel(paths_in[1], paths_in[2])) =>
        LET k == FirstDifference(paths_in[1], paths_in[2])
        IN /\ orderings[1] = RightExtendsLeft(paths_in[2][k])
           /\ orderings[2] = RightExtendsLeft(paths_in[1][k])

\* the right-hand path holds the wildcard and the result carries it
C13_Witness ==
    /\ Compared /\ WildcardMeetsLabel(paths_in[1], paths_in[2])
    /\ orderings[1].ord = "RightExtendsLeft" /\ IsExistential(orderings[1].ext)
    /\ orderings[2].ord = "RightExtendsLeft" /\ IsLabeled(orderings[2].ext)

\* the path with the offset at position k replaced
Subst(path, k, o) == [path EXCEPT ![k] = o]

\* C14: two wildcards at the same position count as equal offsets iff their
\* tags are equal: with equal tags the result is the one compare gives when
\* both are replaced by one label, and when the paths first differ in two
\* wildcards the result is Incomparable; a path that begins with a wildcard
\* and a path that begins with a label are Incomparable.
C14_WildcardIdentity ==
    Compared =>
        LET p == paths_in[1]
            q == paths_in[2]
            k == FirstDifference(p, q)
        IN /\ (k > 0 /\ IsExistential(p[k]) /\ IsExistential(q[k])) =>
                  orderings = <<Incomparable, Incomparable>>
           /\ \A j \in 1 .. Min(Len(p), Len(q)) :
                  (IsExistential(p[j]) /\ p[j] = q[j] /\ (k = 0 \/ j < k)) =>
                      orderings[1] = compare(Subst(p, j, Field(0)), Subst(q, j, Field(0)))
           /\ IsExistential(p[1]) # IsExistential(q[1]) =>
                  orderings = <<Incomparable, Incomparable>>

\* two paths share a wildcard and then differ in two wildcards
C14_Witness ==
    /\ Compared
    /\ LET p == paths_in[1]
           q == paths_in[2]
       IN /\ Len(p) >= 3 /\ Len(q) >= 3
          /\ p[1] = q[1]
          /\ IsExistential(p[2]) /\ p[2] = q[2]
          /\ IsExistential(p[3]) /\ IsExistential(q[3]) /\ p[3] # q[3]
          /\ orderings[1] = Incomparable

(***************************************************************************)
(* Properties of covers and join (checked under SpecJoin).                 *)
(***************************************************************************)
Joined == sets_out # <<>>

PathsOf(bs) == [id \in Keys(bs) |-> bs.map[id].paths]

HasWildcard(bs) ==
    \E id \in Keys(bs) : \E p \in bs.map[id].paths : \E k \in DOMAIN p : IsExistential(p[k])

\* C15 as stated: covers is a preorder on borrow sets over the same ids:
\* A covers A, and A covers C whenever A covers B and B covers C, wildcards
\* included.
C15_CoversPreorder ==
    Joined =>
        /\ sets_out.covers_aa
        /\ (sets_out.covers_ab /\ sets_out.covers_bc) => sets_out.covers_ac

\* C15: covers is reflexive on borrow sets over the same ids, wildcards
\* included: A.covers(A) holds for every A.  (It is not transitive.)
C15_CoversReflexive == Joined => sets_out.covers_aa

\* a set with two paths for y, one of them with a wildcard, covers itself
C15_Witness ==
    /\ Joined /\ sets_out.covers_aa
    /\ HasWildcard(sets_in[1])
    /\ Cardinality(sets_in[1].map[locals[1]].paths) = 2

\* C16: if A covers B then A.join(B) has, for every reference id, exactly
\* the paths A has.
C16_JoinAbsorbsCovered ==
    (Joined /\ sets_out.covers_ab) => PathsOf(sets_out.join_ab) = PathsOf(sets_in[1])

\* A covers a set B that holds a path A does not hold
C16_Witness ==
    /\ Joined /\ sets_out.covers_ab
    /\ \E id \in Keys(sets_in[2]) :
          sets_in[2].map[id].paths \ sets_in[1].map[id].paths # {}
    /\ PathsOf(sets_out.join_ab) = PathsOf(sets_in[1])

\* C17: A.join(A) has the paths of A, and A.join(B) and B.join(A) cover
\* each other.
C17_JoinIdempotentCommutative ==
    Joined =>
        /\ PathsOf(sets_out.join_aa) = PathsOf(sets_in[1])
        /\ covers(sets_out.join_ab, sets_out.join_ba)
        /\ covers(sets_out.join_ba, sets_out.join_ab)

\* the two joins hold different paths and cover each other
C17_Witness ==
    /\ Joined
    /\ PathsOf(sets_out.join_ab) # PathsOf(sets_out.join_ba)
    /\ PathsOf(sets_out.join_ab) # PathsOf(sets_in[1])
    /\ PathsOf(sets_out.join_ba) # PathsOf(sets_in[2])
    /\ covers(sets_out.join_ab, sets_out.join_ba)
    /\ covers(sets_out.join_ba, sets_out.join_ab)

(***************************************************************************)
(* Further properties of the transfer function (checked under Spec).       *)
(***************************************************************************)
\* the paths extend_by_unknown of the borrow map gives a reference borrowed
\* from sources
UnknownExtensions(bs, sources, instr, n) ==
    IF sources = {} THEN {<<Existential(instr, n)>>}
    ELSE {Append(p, Existential(instr, n)) : p \in UNION {bs.map[s].paths : s \in sources}}

\* C18: a successful Call returns, for each return type in order, a mutable
\* reference whose paths are the wildcard extensions of the mutable
\* arguments for a mutable-reference type, an immutable reference whose
\* paths are the wildcard extensions of all reference arguments for an
\* immutable-reference type, and NonReference otherwise; the wildcard is
\* tagged with the offset of the call and the position of the return value.
C18_CallReturnsByType ==
    (last.op = "Call" /\ last.err = "") =>
        /\ Len(last.vals) = Len(last.rets)
        /\ \A i \in DOMAIN last.rets :
              LET v == last.vals[i]
                  A == OperandIds
                  M == {id \in A : is_mutable(last.pre, id)}
              IN IF last.rets[i] = "MutableReference"
                 THEN /\ is_reference(v)
                      /\ borrow_set.map[v[2]].mutable
                      /\ borrow_set.map[v[2]].paths = UnknownExtensions(last.pre, M, last.a, i - 1)
                 ELSE IF last.rets[i] = "Reference"
                 THEN /\ is_reference(v)
                      /\ ~borrow_set.map[v[2]].mutable
                      /\ borrow_set.map[v[2]].paths = UnknownExtensions(last.pre, A, last.a, i - 1)
                 ELSE v = NonReference

\* C19: MoveLoc(i) on a reference slot returns a copy of the slot's pinned
\* reference (another id, not pinned, same paths and mutability) and leaves
\* the pinned reference released.
C19_MoveLocCopiesAndReleases ==
    (last.op = "MoveLoc" /\ last.a \in DOMAIN locals /\ last.err = "") =>
        LET pinned == locals[last.a]
            v == last.vals[1]
        IN /\ is_reference(v)
           /\ v[2] # pinned /\ v[2] \in Keys(borrow_set)
           /\ ~borrow_set.map[v[2]].pinned
           /\ borrow_set.map[v[2]].paths = last.pre.map[pinned].paths
           /\ borrow_set.map[v[2]].mutable = last.pre.map[pinned].mutable
           /\ BorrowMap_is_pinned_released(borrow_set, pinned)

\* C20: for a non-reference local i, StLoc(i) of a non-reference value fails
\* with STLOC_UNSAFE_TO_DESTROY_ERROR, and MoveLoc(i) fails with
\* MOVELOC_EXISTS_BORROW_ERROR, iff some live reference has a path whose
\* first offset is Local(i); otherwise both succeed and leave the borrow set
\* as it was.
LocalRooted(bs, i) ==
    \E id \in Keys(bs) : \E p \in bs.map[id].paths : p[1] = Local(i)

C20_LocalBorrowedBlocksStoreAndMove ==
    /\ (last.op = "StLoc" /\ last.a \notin DOMAIN locals /\ last.operands = <<NonReference>>) =>
          /\ (last.err = "STLOC_UNSAFE_TO_DESTROY_ERROR") <=> LocalRooted(last.pre, last.a)
          /\ (last.err = "") <=> ~LocalRooted(last.pre, last.a)
          /\ borrow_set = last.pre
    /\ (last.op = "MoveLoc" /\ last.a \notin DOMAIN locals) =>
          /\ (last.err = "MOVELOC_EXISTS_BORROW_ERROR") <=> LocalRooted(last.pre, last.a)
          /\ (last.err = "") <=> ~LocalRooted(last.pre, last.a)
          /\ last.err = "" => last.vals = <<NonReference>>
          /\ borrow_set = last.pre

\* C21: CopyLoc of a non-reference local always succeeds with NonReference,
\* even when a live mutable reference has a path starting with that local;
\* it never fails with COPYLOC_EXISTS_BORROW_ERROR.
C21_CopyLocOfValueNeverFails ==
    (last.op = "CopyLoc" /\ last.a \notin DOMAIN locals) =>
        /\ last.err = ""
        /\ last.vals = <<NonReference>>
        /\ borrow_set = last.pre

\* Eq applied to two reference operands
EqOfReferences ==
    /\ last.op = "Eq"
    /\ is_reference(last.operands[1]) /\ is_reference(last.operands[2])

\* id is gone from bs: removed, or emptied when it is pinned
Released(bs, id) == IF id \in PinnedIds THEN bs.map[id].paths = {} ELSE id \notin Keys(bs)

\* both operands of the last instruction are released, nothing else changed
OperandsReleased ==
    LET ids == {last.operands[i][2] : i \in DOMAIN last.operands}
    IN /\ \A id \in ids : Released(borrow_set, id)
       /\ \A id \in Keys(last.pre) \ ids :
              id \in Keys(borrow_set) /\ borrow_set.map[id] = last.pre.map[id]

\* C22: Eq applied to two reference operands always succeeds,
\* releases both operands and yields NonReference.
C22_EqOfReferencesAlwaysSucceeds ==
    EqOfReferences =>
        /\ last.err = ""
        /\ last.vals = <<NonReference>>
        /\ OperandsReleased

\* C26: whatever instructions have been executed, every reference of the
\* borrow set that is not pinned has a non-empty path set.
C26_UnpinnedHasPaths ==
    \A id \in Keys(borrow_set) : ~borrow_set.map[id].pinned => borrow_set.map[id].paths # {}

\* the ids a query result lists, in any of its three parts
Listed(c) == c.equal \cup c.existential \cup {e[2] : e \in c.labeled}

\* C36: for any two references i and j of the borrow set and the empty
\* filter, j is in the equal, existential or labeled[l] part of
\* borrowed_by(i) iff i is in the same part of borrows_from(j); neither
\* query lists the reference it is asked about.  A query that panics
\* returns nothing and so lists nothing.
C36_BorrowsFromIsDual ==
    \A i \in Keys(borrow_set) :
        LET by == borrowed_by(borrow_set, i, QueryFilter_empty)
        IN /\ i \notin Listed(by)
           /\ i \notin Listed(borrows_from(borrow_set, i, QueryFilter_empty))
           /\ \A j \in Keys(borrow_set) \ {i} :
                 LET from == borrows_from(borrow_set, j, QueryFilter_empty)
                 IN /\ j \in by.equal <=> i \in from.equal
                    /\ j \in by.existential <=> i \in from.existential
                    /\ \A l \in {e[1] : e \in by.labeled \cup from.labeled} :
                          <<l, j>> \in by.labeled <=> <<l, i>> \in from.labeled

\* one reference has an equal, another a label extension and a third a
\* wildcard extension
C36_Witness ==
    \E i \in Keys(borrow_set) :
        LET by == borrowed_by(borrow_set, i, QueryFilter_empty)
        IN /\ by.equal # {} /\ by.labeled # {}
           /\ \E k \in Keys(borrow_set) :
                 borrowed_by(borrow_set, k, QueryFilter_empty).existential # {}

\* the last instruction returned an error (a panic returns nothing)
Failed == last.op # "none" /\ last.err \notin {"", "panic"}

\* C37 as stated: an instruction that returns an error leaves the borrow
\* set as it was before the instruction.
C37_ErrorLeavesStateAlone == Failed => borrow_set = last.pre

\* C37, amended: an instruction other than Ret that returns an error leaves
\* the borrow set as it was; a Ret that returns an error has released the
\* locals that were bound, and changed nothing else.
C37_ErrorLeavesStateAloneButRet ==
    Failed => borrow_set = IF last.op = "Ret" THEN release_locals(last.pre) ELSE last.pre

\* a Ret failed after it had released a bound local
C37_Witness ==
    /\ Failed /\ last.op = "Ret"
    /\ last.err = "RET_BORROWED_MUTABLE_REFERENCE_ERROR"
    /\ borrow_set # last.pre
    /\ \E id \in PinnedIds : last.pre.map[id].paths # {} /\ borrow_set.map[id].paths = {}

(***************************************************************************)
(* Further properties of the driver (checked under SpecDriver).            *)
(***************************************************************************)
\* the header h has an invariant whose postcondition is Unprocessed
HeaderUnprocessed(inv, h) == h \in DOMAIN inv /\ inv[h].post = "Unprocessed"

\* the block the driver turns to after block b, as the claim has it
ScheduledAfter(code, inv, b) ==
    LET m == loop_last_continue_blocks(code)
    IN IF b \in DOMAIN m /\ HeaderUnprocessed(inv, m[b]) THEN m[b]
       ELSE cfg_next_block(code, b)

\* C32 as stated: after an iteration on a block (executed, failed or
\* skipped) that is the last-continue block of a loop, the next block is
\* the loop's header iff the header's postcondition is Unprocessed, and
\* otherwise, as after any other block, the next block in traversal order.
C32_HeaderRescheduled ==
    [][visits' = visits + 1 => next_block' = ScheduledAfter(prog, inv_map', next_block)]_vars

\* block b was executed without error, by this iteration or an earlier one,
\* from the pre-state the iteration leaves it with
ExecutedFromItsPre(b) ==
    \/ /\ b = next_block
       /\ inv_map'[b].pre = inv_map[b].pre
    \/ /\ b \in DOMAIN inv_map
       /\ inv_map[b].post = "Success"
       /\ inv_map'[b].pre = inv_map[b].pre

\* C33 as stated: whatever the iteration, a block whose postcondition is
\* Success has been executed without error from its recorded pre-state; a
\* block whose pre-state was just created from a predecessor's post-state or
\* changed by a join is Unprocessed.
C33_SuccessMeansExecuted ==
    [][visits' = visits + 1 =>
          \A b \in DOMAIN inv_map' :
              inv_map'[b].post = "Success" => ExecutedFromItsPre(b)]_vars

(***************************************************************************)
(* Properties of the mutators of set.rs (checked under SpecSet).           *)
(***************************************************************************)
\* the set BorrowSet::new returned
Constructed == bset_new[1].bs

\* the last call was op and returned
Returned(op) == bset_call.op = op /\ bset_call.panic = ""

\* C23: make_copy(id) yields a new reference that is not pinned, with an id
\* other than id that was not a key, whose path set is the path set of id,
\* and leaves the paths, the mutability and the pinned bit of id as they
\* were.
C23_CopyIsIdentityOnPaths ==
    Returned("make_copy") =>
        LET id == bset_call.id
            copy == bset_call.ret
            pre == bset_call.pre
        IN /\ copy # id /\ copy \notin Keys(pre) /\ copy \in Keys(bset)
           /\ ~bset.map[copy].pinned
           /\ bset.map[copy].paths = pre.map[id].paths
           /\ bset.map[id].paths = pre.map[id].paths
           /\ bset.map[id].mutable = pre.map[id].mutable
           /\ bset.map[id].pinned = pre.map[id].pinned

\* C24: whatever calls have been made, every reference id issued at
\* construction is still a key of the borrow set and is pinned; the release
\* of a pinned reference leaves its entry in the map, with no path.
C24_PinnedNeverRemoved ==
    bset_new # <<>> =>
        /\ \A id \in Keys(Constructed) : id \in Keys(bset) /\ bset.map[id].pinned
        /\ (Returned("release") /\ bset_call.pre.map[bset_call.id].pinned) =>
               /\ bset_call.id \in Keys(bset)
               /\ bset.map[bset_call.id].paths = {}

\* BorrowSet::all_start_with_ref(id): the references with a path that starts
\* at the reference id
all_start_with_ref(bs, id) ==
    {k \in Keys(bs) : \E path \in bs.map[k].paths : path.ref_start = <<id>>}

\* C25: after release(id) of a reference that is not pinned, id is no key of
\* the borrow set and no all_start_with_ref query returns it, whether or not
\* id had been copied with make_copy.
C25_ReleasedIsAbsent ==
    (Returned("release") /\ ~bset_call.pre.map[bset_call.id].pinned) =>
        /\ bset_call.id \notin Keys(bset)
        /\ \A k \in IssuedSoFar : bset_call.id \notin all_start_with_ref(bset, k)

\* C27: the two sides of every join (a state and its clone) and its result
\* hold every reference id issued at construction, each with the mutability
\* it was constructed with.  The claim has the key set equal to the set of
\* those ids; the other ids are left out here because a reference made
\* since may be live when this specification joins.
C27_KeysAndBitsFixed ==
    bset_call.op = "join" =>
        \A id \in Keys(Constructed) :
            /\ id \in Keys(bset_call.pre)
            /\ bset_call.pre.map[id].mutable = Constructed.map[id].mutable
            /\ id \in Keys(bset)
            /\ bset.map[id].mutable = Constructed.map[id].mutable

\* C28: BorrowSet::new returns one pinned reference for each entry, with ids
\* contiguous from 0 in the order of the entries and the mutability of the
\* entry; the reference of the entry of parameter i holds the single path
\* [Parameter(i)].  (An entry of set.rs always has a label: the reference
\* of a local, which the claim has without a path, cannot be asked for.)
C28_InitialState ==
    bset_call.op = "new" =>
        LET initial_refs == bset_new[1].initial_refs
            ids == bset_new[1].ids
            n == Len(initial_refs)
        IN /\ Keys(Constructed) = 0 .. (n - 1)
           /\ Constructed.next_id = n
           /\ \A i \in DOMAIN initial_refs :
                 /\ ids[initial_refs[i][1]] = i - 1
                 /\ Constructed.map[i - 1].pinned
                 /\ Constructed.map[i - 1].mutable = initial_refs[i][2]
                 /\ Constructed.map[i - 1].paths
                        = {BorrowPath_new(<<>>, <<initial_refs[i][3]>>, FALSE)}

\* the source path extended by the offsets of the call
Extended(bp, offsets, ends_in_star) ==
    [bp EXCEPT !.offsets = bp.offsets \o offsets, !.ends_in_star = ends_in_star]

\* C34: extend_by_labels and extend_by_unknown create exactly one new
\* reference, not pinned, with an id that was not a key, whose path set is
\* the union over the sources of every path of the source extended by the
\* offsets (by a star for extend_by_unknown), or the single path of the
\* offsets when there is no source; no other reference changes.
C34_ExtendCreatesOneReference ==
    ((Returned("extend_by_labels") \/ Returned("extend_by_unknown"))
        /\ bset_call.sources \subseteq Keys(bset_call.pre)) =>
        LET pre == bset_call.pre
            id == bset_call.ret
            star == bset_call.op = "extend_by_unknown"
        IN /\ Keys(bset) = Keys(pre) \cup {id} /\ id \notin Keys(pre)
           /\ ~bset.map[id].pinned
           /\ bset.map[id].paths =
                 IF bset_call.sources = {}
                 THEN {BorrowPath_new(<<>>, bset_call.offsets, star)}
                 ELSE {Extended(bp, bset_call.offsets, star) :
                          bp \in UNION {pre.map[s].paths : s \in bset_call.sources}}
           /\ \A k \in Keys(pre) : bset.map[k] = pre.map[k]

\* every key of bs is below next_id
IdsBelowNext(bs) == \A id \in Keys(bs) : id < bs.next_id

\* C35: whatever calls have been made, joins included, every key of the
\* borrow set is below next_id, and the id issued for a new reference was
\* not a key of the map.
C35_IdsBelowNextAndFresh ==
    /\ IdsBelowNext(bset)
    /\ bset_call.op \in {"extend_by_labels", "extend_by_unknown"} =>
          \/ bset_call.ret \notin Keys(bset_call.pre)
          \/ bset = bset_call.pre

(***************************************************************************)
(* Properties of the analyzer selection (checked under SpecVerify).        *)
(***************************************************************************)
\* the analyzer has been selected, or the selection has aborted
Selected == analyzer # "unselected"

\* C30 as stated: when the variable SET_BASED is absent, verify_common
\* still selects one of the two analyzers and does not abort.
C30_AbsentToggleDefaults ==
    (~env.set /\ Selected) => analyzer \in {"set_based", "graph"}

(***************************************************************************)
(* Properties of symbols (checked under SpecSymbol).                       *)
(***************************************************************************)
\* C31: two symbols have the same value iff they were made from the same
\* string, whether the strings are inlined (at most 7 bytes) or pooled, and
\* as_str of a symbol is the string it was made from.
C31_SymbolsIdentifyStrings ==
    /\ \A i, j \in DOMAIN syms : (syms[i].value = syms[j].value) <=> (syms[i].s = syms[j].s)
    /\ \A i \in DOMAIN syms : Symbol_as_str(pool, syms[i].value) = syms[i].s

\* an inlined string and the pooled string it is a prefix of, apart by a
\* byte 0 only
C31_Witness ==
    /\ Len(syms) = 2
    /\ Len(syms[1].s) = MAX_INLINE_LEN /\ Symbol_tag(syms[1].value) = "Inlined"
    /\ syms[2].s = Append(syms[1].s, 0) /\ Symbol_tag(syms[2].value) = "Dynamic"
    /\ syms[1].value # syms[2].value
    /\ Symbol_as_str(pool, syms[2].value) = syms[2].s

(***************************************************************************)
(* Properties of the control-flow graph (checked under SpecCfg).           *)
(***************************************************************************)
\* the next iteration would make the queue longer than the longest explored
QueueAtBound ==
    /\ cfg_phase = "body"
    /\ Len(queue \o successors(cfg_code, cur)) > MaxQueue

\* C38 as stated: VMControlFlowGraph::new terminates for every non-empty
\* code array, also when its graph has cycles (here: unless the queue
\* outgrows the longest queue explored).
C38_NewTerminates == <>(cfg_phase = "done" \/ QueueAtBound)

(***************************************************************************)
(* Properties of the list parser (checked under SpecParse).                *)
(***************************************************************************)
\* the tokens are n items, each followed by the delimiter, and then the
\* end token or the end of the input
TrailingDelim(ts) ==
    \E n \in 1 .. MaxTokens :
        /\ Len(ts) >= 2 * n
        /\ \A i \in 1 .. n : ts[2 * i - 1] \in ItemTokens /\ ts[2 * i] = Comma
        /\ Len(ts) = 2 * n \/ ts[2 * n + 1] = Gt

\* C39 as stated: without allow_trailing_delim parse_list returns an error
\* when the last item is followed by the delimiter and then the end token
\* or the end of the input.
C39_TrailingDelimRejected ==
    (parse_out # <<>> /\ ~parse_in[1].allow_trailing_delim /\ TrailingDelim(parse_in[1].tokens))
        => ~parse_out[1].ok

====
